---------------------------- MODULE Spec2Model ----------------------------
(***************************************************************************)
(* A model of mktorrent-rs: the BitTorrent v2 checksum engine              *)
(* (src/checksum/merkle.rs, sha256.rs, torrent2.rs, src/checksum.rs), the  *)
(* torrent and its encoding (src/metainfo.rs) and the program's run        *)
(* (src/main.rs).                                                          *)
(*                                                                         *)
(* Specifications.  Spec drives the calls of the engines, SpecUnits one    *)
(* hasher object at a time, SpecTorrent a Torrent through add_file and the *)
(* encoder, SpecMain a run of main, SpecLength the calls on a PieceLength, *)
(* SpecPad (SpecPadFair with fairness) the padding loops of the merkle     *)
(* hashers one turn at a time, and SpecSeeker PiecesSeekers and their      *)
(* clones. Each keeps the variables of the others at their idle values.    *)
(*                                                                         *)
(* Digests.  SHA-256 is modelled as a free, injective constructor: a       *)
(* digest is a sequence of integers that spells out the term it was        *)
(* computed from.  <<0>> is the all-zero digest, <<1, n, b1..bn>> is the   *)
(* digest of the n data bytes b1..bn and <<2>> \o a \o b is the digest of  *)
(* the digest pair a||b.  The code words are prefix-free, so two digests   *)
(* are equal exactly when they were computed from the same input, and no   *)
(* computed digest is the all-zero digest.                                 *)
(*                                                                         *)
(* Sizes.  The 16KiB block is scaled down to BLOCK_SIZE bytes; a piece of  *)
(* `layers` layers holds BLOCK_SIZE * 2^layers bytes, as in the code.      *)
(* The maximum path depth of 20 is scaled down to MAX_FILE_PATH_DEPTH; the *)
(* nesting limits of the encoder are derived from it as in the code.       *)
(* PieceLength::from_bytes and bytes are modelled on 64-bit numbers, each  *)
(* written as the set of its one-bit positions, with the code's 2^14.      *)
(***************************************************************************)
EXTENDS Integers, Sequences, FiniteSets, TLC

\* ------------------------------------------------------------------ bounds
\* The block size in bytes (16 << 10 in the code, scaled down).
BLOCK_SIZE == 2
\* The largest PieceLength.layers explored.
MaxLayers == 2
\* The longest source explored holds MaxPieces pieces, and at most
\* MaxBlocks blocks.
MaxPieces == 3
MaxBlocks == 6
\* The scaled-down batch budgets (128 << 20 in the code) are 1..MaxBatch blocks.
MaxBatch == 2

\* The contents explored: byte i of a source is (k * i) % 256 for a k of
\* Strides, so a source is all zeros (k = 0) or has pairwise distinct bytes
\* (k = 1), which tells every misplaced, dropped or repeated byte apart.
Strides == {0, 1}
Source(n, k) == [i \in 1..n |-> (k * (i - 1)) % 256]

Min(a, b) == IF a < b THEN a ELSE b
Max(a, b) == IF a > b THEN a ELSE b

RECURSIVE Pow2(_)
Pow2(n) == IF n = 0 THEN 1 ELSE 2 * Pow2(n - 1)

\* ------------------------------------------------------------ sha256.rs
\* Digest::default(): the all-zero digest.
ZeroDigest == <<0>>

\* sha256::Hasher::default(): a context that has absorbed nothing.
NewSha == <<>>

\* sha256::Hasher::update: the context absorbs the data.
sha_update(ctx, data) == ctx \o data

\* sha256::Hasher::into_digest: the digest of what was absorbed.
into_digest(ctx) == <<1, Len(ctx)>> \o ctx

\* sha256::Hasher::finish: std::mem::take(self).into_digest(); the hasher is
\* left holding a default context.
sha_finish(ctx) == [digest |-> into_digest(ctx), hasher |-> NewSha]

\* ------------------------------------------------------------ merkle.rs
\* Entry::new
Entry(d) == [layer |-> 0, digest |-> d]

\* Hasher::combine_digests: SHA256(a || b) of two digests.
combine_digests(a, b) == <<2>> \o a \o b

\* Hasher::new(): the empty stack.
NewMerkle == <<>>

\* A variant of the loop that hashes the newer entry before the older one.
RECURSIVE Settle_swapped(_)
Settle_swapped(s) ==
    IF Len(s) >= 2 /\ s[Len(s)].layer = s[Len(s) - 1].layer
    THEN LET b == s[Len(s)]
             a == s[Len(s) - 1]
         IN  Settle_swapped(Append(SubSeq(s, 1, Len(s) - 2),
                                   [layer |-> a.layer + 1,
                                    digest |-> <<2>> \o b.digest \o a.digest]))
    ELSE s

\* The while loop of Hasher::add_block: pop the two newest entries while
\* they share a layer and push their parent.
RECURSIVE Settle(_)
Settle(s) ==
    IF Len(s) >= 2 /\ s[Len(s)].layer = s[Len(s) - 1].layer
    THEN LET b == s[Len(s)]
             a == s[Len(s) - 1]
         IN  Settle(Append(SubSeq(s, 1, Len(s) - 2),
                           [layer |-> a.layer + 1,
                            digest |-> combine_digests(a.digest, b.digest)]))
    ELSE s

\* Hasher::add_block
add_block(s, h) == Settle(Append(s, Entry(h)))

\* Hasher::current_layer: Some(layer) of a single entry, else None (-1).
None == -1
current_layer(s) == IF Len(s) = 1 THEN s[1].layer ELSE None

\* Hasher::is_empty
is_empty(s) == Len(s) = 0

\* A variant of reset that keeps the stack.
merkle_reset_keep(s) == s

\* Hasher::reset
merkle_reset(s) == SubSeq(s, 1, 0)

\* The padding loop of Hasher::finish_tree.
RECURSIVE PadTree(_, _)
PadTree(s, pad) == IF Len(s) /= 1 THEN PadTree(add_block(s, pad), pad) ELSE s

\* Hasher::finish_tree: the root, and the hasher after the reset.
finish_tree(s, pad) ==
    LET t == PadTree(s, pad)
    IN  [digest |-> t[1].digest, hasher |-> merkle_reset(t)]

\* A variant of the loop that stops at the first single entry, whatever its
\* layer.
PadLayer_any_root(s, pad, layer) ==
    IF current_layer(s) = None THEN PadTree(s, pad) ELSE s

\* The padding loop of Hasher::finish_layer.
RECURSIVE PadLayer(_, _, _)
PadLayer(s, pad, layer) ==
    IF current_layer(s) = None \/ current_layer(s) < layer
    THEN PadLayer(add_block(s, pad), pad, layer)
    ELSE s

\* A variant of finish_layer that also gives up on a single entry of the
\* target layer.
finish_layer_strict(s, pad, layer) ==
    IF Len(s) > 0 /\ s[1].layer >= layer
    THEN [some |-> FALSE, digest |-> ZeroDigest, hasher |-> merkle_reset(s)]
    ELSE LET t == PadLayer(s, pad, layer)
         IN  [some |-> TRUE, digest |-> t[1].digest, hasher |-> merkle_reset(t)]

\* A variant of finish_layer that tests the newest entry, not the oldest.
finish_layer_newest(s, pad, layer) ==
    IF Len(s) > 0 /\ (s[Len(s)].layer > layer
                      \/ (s[Len(s)].layer = layer /\ Len(s) > 1))
    THEN [some |-> FALSE, digest |-> ZeroDigest, hasher |-> merkle_reset(s)]
    ELSE LET t == PadLayer(s, pad, layer)
         IN  [some |-> TRUE, digest |-> t[1].digest, hasher |-> merkle_reset(t)]

\* Hasher::finish_layer: `some` tells Some(digest) from None.
finish_layer(s, pad, layer) ==
    IF Len(s) > 0 /\ (s[1].layer > layer \/ (s[1].layer = layer /\ Len(s) > 1))
    THEN [some |-> FALSE, digest |-> ZeroDigest, hasher |-> merkle_reset(s)]
    ELSE LET t == PadLayer(s, pad, layer)
         IN  [some |-> TRUE, digest |-> t[1].digest, hasher |-> merkle_reset(t)]

\* merkle::zero_root
RECURSIVE zero_root(_)
zero_root(layer) ==
    IF layer = 0 THEN ZeroDigest
    ELSE LET d == zero_root(layer - 1) IN combine_digests(d, d)

\* The for loop of merkle::root_hash.
RECURSIVE AddAll(_, _)
AddAll(s, ds) == IF Len(ds) = 0 THEN s ELSE AddAll(add_block(s, Head(ds)), Tail(ds))

\* A variant of root_hash that pads with the all-zero digest at every layer.
root_hash_zero_pad(layer, digests) ==
    finish_tree(AddAll(NewMerkle, digests), ZeroDigest).digest

\* merkle::root_hash
root_hash(layer, digests) ==
    finish_tree(AddAll(NewMerkle, digests), zero_root(layer)).digest

\* ---------------------------------------------------------- metainfo.rs
\* PieceLength::bytes: 1 << (layers + 14), the block size times 2^layers.
bytes(layers) == BLOCK_SIZE * Pow2(layers)

\* File and File::default()
File(length, pieces_root) == [length |-> length, pieces_root |-> pieces_root]
\* A variant of the default File whose root is the SHA256 of no bytes.
DefaultFile_empty_hash == File(0, into_digest(<<>>))
DefaultFile == File(0, ZeroDigest)

\* --------------------------------------------- metainfo.rs: the torrent
\* Strings and byte strings are sequences of bytes; 47 is '/', 97 is 'a'.
\* Arbitrary maximum depth for a path (20 in the code, scaled down).
MAX_FILE_PATH_DEPTH == 4
META_VERSION == 2

\* str::split('/'): the components of a path, at least one.
RECURSIVE split(_)
split(path) ==
    IF \A i \in 1..Len(path) : path[i] /= 47 THEN <<path>>
    ELSE LET i == CHOOSE i \in 1..Len(path) :
                     path[i] = 47 /\ \A k \in 1..(i - 1) : path[k] /= 47
         IN  <<SubSeq(path, 1, i - 1)>> \o split(SubSeq(path, i + 1, Len(path)))

\* HashMap::new(), and HashMap::insert.
NoEntries == <<>>
Put(m, k, v) == [x \in (DOMAIN m) \cup {k} |-> IF x = k THEN v ELSE m[x]]

\* PathElement::File(f) and PathElement::Directory(d); a Directory is its
\* entries, a map from names to path elements.
FileElement(f) == [kind |-> "File", file |-> f, entries |-> NoEntries]
DirElement(entries) == [kind |-> "Directory", file |-> DefaultFile, entries |-> entries]

\* Torrent::new
NewTorrent(announce, name, layers) ==
    [announce |-> announce, name |-> name, piece_length |-> layers,
     file_tree |-> NoEntries, piece_layers |-> NoEntries]

\* A variant of the walk that replaces what the last component names.
RECURSIVE walk_replace(_, _, _)
walk_replace(entries, components, f) ==
    LET c == Head(components)
        rest == Tail(components)
    IN  IF Len(rest) = 0
        THEN [ok |-> TRUE, entries |-> Put(entries, c, FileElement(f))]
        ELSE LET inserted == IF c \in DOMAIN entries THEN entries
                             ELSE Put(entries, c, DirElement(NoEntries))
                 e == inserted[c]
             IN  IF e.kind /= "Directory"
                 THEN [ok |-> FALSE, entries |-> inserted]
                 ELSE LET r == walk_replace(e.entries, rest, f)
                      IN  [ok |-> r.ok,
                           entries |-> Put(inserted, c, DirElement(r.entries))]

\* The walk of Torrent::add_file from the entry of component c in `entries`:
\* for a component that is not the last, or_insert_with puts a directory
\* into a vacant entry and get_entry gives None when the entry holds a file;
\* the last component's entry takes the file when it is vacant. The entries
\* come back as the walk left them, whether it succeeded or not.
RECURSIVE walk(_, _, _)
walk(entries, components, f) ==
    LET c == Head(components)
        rest == Tail(components)
    IN  IF Len(rest) = 0
        THEN IF c \in DOMAIN entries
             THEN [ok |-> FALSE, entries |-> entries]
             ELSE [ok |-> TRUE, entries |-> Put(entries, c, FileElement(f))]
        ELSE LET inserted == IF c \in DOMAIN entries THEN entries
                             ELSE Put(entries, c, DirElement(NoEntries))
                 e == inserted[c]
             IN  IF e.kind /= "Directory"
                 THEN [ok |-> FALSE, entries |-> inserted]
                 ELSE LET r == walk(e.entries, rest, f)
                      IN  [ok |-> r.ok,
                           entries |-> Put(inserted, c, DirElement(r.entries))]

\* A variant of add_file that stores the piece layer before it walks.
add_file_layers_first(t, path, f, pieces_layer) ==
    LET t0 == IF Len(pieces_layer) /= 0
              THEN [t EXCEPT !.piece_layers = Put(@, f.pieces_root, pieces_layer)]
              ELSE t
        r == walk(t0.file_tree, split(path), f)
    IN  [ret |-> r.ok, torrent |-> [t0 EXCEPT !.file_tree = r.entries]]

\* Torrent::add_file: what it returns and the torrent afterwards.
add_file(t, path, f, pieces_layer) ==
    LET r == walk(t.file_tree, split(path), f)
        t1 == [t EXCEPT !.file_tree = r.entries]
    IN  IF ~r.ok THEN [ret |-> FALSE, torrent |-> t1]
        ELSE [ret |-> TRUE,
              torrent |-> IF Len(pieces_layer) /= 0
                          THEN [t1 EXCEPT !.piece_layers =
                                   Put(@, f.pieces_root, pieces_layer)]
                          ELSE t1]

\* ------------------------------------------- metainfo.rs: the encoding
\* The order of String and of Digest: byte-wise lexicographic.
RECURSIVE LexLess(_, _)
LexLess(a, b) ==
    IF Len(b) = 0 THEN FALSE
    ELSE IF Len(a) = 0 THEN TRUE
    ELSE IF Head(a) /= Head(b) THEN Head(a) < Head(b)
    ELSE LexLess(Tail(a), Tail(b))

\* A variant of the sort that puts the keys in descending order.
RECURSIVE SortedKeys_descending(_)
SortedKeys_descending(S) ==
    IF S = {} THEN <<>>
    ELSE LET m == CHOOSE m \in S : \A x \in S \ {m} : LexLess(x, m)
         IN  <<m>> \o SortedKeys_descending(S \ {m})

\* collect() and sort_unstable_by_key on the keys of a map.
RECURSIVE SortedKeys(_)
SortedKeys(S) ==
    IF S = {} THEN <<>>
    ELSE LET m == CHOOSE m \in S : \A x \in S \ {m} : LexLess(m, x)
         IN  <<m>> \o SortedKeys(S \ {m})

\* bencode: an integer is i<decimal>e, a byte string <length>:<bytes>, a
\* dictionary d<key><value>...e.
RECURSIVE Digits(_)
Digits(n) == IF n < 10 THEN <<48 + n>> ELSE Digits(n \div 10) \o <<48 + (n % 10)>>
emit_int(n) == <<105>> \o Digits(n) \o <<101>>
emit_bytes(s) == Digits(Len(s)) \o <<58>> \o s

\* The keys of the dictionaries, in ASCII.
Key_announce == <<97, 110, 110, 111, 117, 110, 99, 101>>
Key_info == <<105, 110, 102, 111>>
Key_piece_layers == <<112, 105, 101, 99, 101, 32, 108, 97, 121, 101, 114, 115>>
Key_file_tree == <<102, 105, 108, 101, 32, 116, 114, 101, 101>>
Key_meta_version == <<109, 101, 116, 97, 32, 118, 101, 114, 115, 105, 111, 110>>
Key_name == <<110, 97, 109, 101>>
Key_piece_length == <<112, 105, 101, 99, 101, 32, 108, 101, 110, 103, 116, 104>>
Key_length == <<108, 101, 110, 103, 116, 104>>
Key_pieces_root == <<112, 105, 101, 99, 101, 115, 32, 114, 111, 111, 116>>

\* What an encoder returns: the bytes, or the structure error.
EncOk(out) == [ok |-> TRUE, err |-> "none", out |-> out]
NestingTooDeep == [ok |-> FALSE, err |-> "NestingTooDeep", out |-> <<>>]

\* A variant of emit_dict that accepts any nesting.
emit_dict_unbounded(depth, max_depth, body) ==
    IF ~body.ok THEN body ELSE EncOk(<<100>> \o body.out \o <<101>>)

\* emit_dict: a dictionary opened at nesting `depth` is one level deeper; the
\* encoder refuses a level beyond max_depth.
emit_dict(depth, max_depth, body) ==
    IF depth + 1 > max_depth THEN NestingTooDeep
    ELSE IF ~body.ok THEN body
    ELSE EncOk(<<100>> \o body.out \o <<101>>)

\* emit_pair: the key, then the value; an error of the value is the pair's.
emit_pair(key, value) ==
    IF ~value.ok THEN value ELSE EncOk(emit_bytes(key) \o value.out)

\* The pairs of a dictionary one after the other; the first error ends it.
then(a, b) == IF ~a.ok THEN a ELSE IF ~b.ok THEN b ELSE EncOk(a.out \o b.out)

\* File::MAX_DEPTH, Directory::MAX_DEPTH, Info::MAX_DEPTH, Torrent::MAX_DEPTH
FileMaxDepth == 2
DirectoryMaxDepth == MAX_FILE_PATH_DEPTH + FileMaxDepth
InfoMaxDepth == DirectoryMaxDepth + 1
TorrentMaxDepth == InfoMaxDepth + 1

\* A variant of File::encode that emits the pieces root of every file.
file_encode_always_root(f, depth, max_depth) ==
    emit_dict(depth, max_depth,
        emit_pair(<<>>,
            emit_dict(depth + 1, max_depth,
                then(emit_pair(Key_length, EncOk(emit_int(f.length))),
                     emit_pair(Key_pieces_root, EncOk(emit_bytes(f.pieces_root)))))))

\* File::encode
file_encode(f, depth, max_depth) ==
    emit_dict(depth, max_depth,
        emit_pair(<<>>,
            emit_dict(depth + 1, max_depth,
                then(emit_pair(Key_length, EncOk(emit_int(f.length))),
                     IF f.length /= 0
                     THEN emit_pair(Key_pieces_root, EncOk(emit_bytes(f.pieces_root)))
                     ELSE EncOk(<<>>)))))

\* Directory::encode and PathElement::encode: the entries sorted by name.
RECURSIVE directory_encode(_, _, _)
RECURSIVE emit_entries(_, _, _, _)
emit_entries(entries, keys, depth, max_depth) ==
    IF Len(keys) = 0 THEN EncOk(<<>>)
    ELSE LET k == Head(keys)
             v == entries[k]
             value == IF v.kind = "Directory"
                      THEN directory_encode(v.entries, depth, max_depth)
                      ELSE file_encode(v.file, depth, max_depth)
         IN  then(emit_pair(k, value),
                  emit_entries(entries, Tail(keys), depth, max_depth))
directory_encode(entries, depth, max_depth) ==
    emit_dict(depth, max_depth,
        emit_entries(entries, SortedKeys(DOMAIN entries), depth + 1, max_depth))

\* Info::encode
info_encode(t, depth, max_depth) ==
    emit_dict(depth, max_depth,
        then(emit_pair(Key_file_tree, directory_encode(t.file_tree, depth + 1, max_depth)),
        then(emit_pair(Key_meta_version, EncOk(emit_int(META_VERSION))),
        then(emit_pair(Key_name, EncOk(emit_bytes(t.name))),
             emit_pair(Key_piece_length, EncOk(emit_int(bytes(t.piece_length))))))))

\* buf.extend_from_slice for each digest of a list.
RECURSIVE Concat(_)
Concat(v) == IF Len(v) = 0 THEN <<>> ELSE Head(v) \o Concat(Tail(v))

\* A variant of the loop that emits the empty lists as well.
RECURSIVE emit_layers_noskip(_, _)
emit_layers_noskip(piece_layers, keys) ==
    IF Len(keys) = 0 THEN <<>>
    ELSE emit_bytes(Head(keys)) \o emit_bytes(Concat(piece_layers[Head(keys)]))
            \o emit_layers_noskip(piece_layers, Tail(keys))

\* The loop of Torrent::encode over the sorted piece layers: an empty list
\* is skipped.
RECURSIVE emit_layers(_, _)
emit_layers(piece_layers, keys) ==
    IF Len(keys) = 0 THEN <<>>
    ELSE LET k == Head(keys)
             v == piece_layers[k]
         IN  (IF Len(v) = 0 THEN <<>> ELSE emit_bytes(k) \o emit_bytes(Concat(v)))
                 \o emit_layers(piece_layers, Tail(keys))

\* Torrent::encode
torrent_encode(t, depth, max_depth) ==
    emit_dict(depth, max_depth,
        then(emit_pair(Key_announce, EncOk(emit_bytes(t.announce))),
        then(emit_pair(Key_info, info_encode(t, depth + 1, max_depth)),
             emit_pair(Key_piece_layers,
                 emit_dict(depth + 1, max_depth,
                     EncOk(emit_layers(t.piece_layers,
                                       SortedKeys(DOMAIN t.piece_layers))))))))

\* ToBencode::to_bencode of a Torrent and of a File: an encoder limited to
\* the type's MAX_DEPTH.
to_bencode(t) == torrent_encode(t, 0, TorrentMaxDepth)
file_to_bencode(f) == file_encode(f, 0, FileMaxDepth)

\* ------------------------------------------------- torrent2.rs: hasher
\* PieceV2Hasher::new
NewPieceHasher(layers) ==
    [piece_length |-> layers, block_hasher |-> NewSha, block_pos |-> 0,
     merkle |-> NewMerkle]

\* PieceV2Hasher::finish_block
finish_block(h) ==
    IF h.block_pos = 0 THEN h
    ELSE LET f == sha_finish(h.block_hasher)
         IN  [h EXCEPT !.block_pos = 0,
                       !.block_hasher = f.hasher,
                       !.merkle = add_block(h.merkle, f.digest)]

\* A variant of update_block that also closes the block when the slice ends.
update_block_flush(h, data) ==
    LET needed == BLOCK_SIZE - h.block_pos
        n == Min(needed, Len(data))
        h1 == [h EXCEPT !.block_hasher = sha_update(h.block_hasher, SubSeq(data, 1, n)),
                        !.block_pos = h.block_pos + n]
    IN  [n |-> n,
         hasher |-> IF h1.block_pos = BLOCK_SIZE \/ n = Len(data)
                    THEN finish_block(h1) ELSE h1]

\* PieceV2Hasher::update_block: the bytes consumed and the hasher after.
update_block(h, data) ==
    LET needed == BLOCK_SIZE - h.block_pos
        n == Min(needed, Len(data))
        h1 == [h EXCEPT !.block_hasher = sha_update(h.block_hasher, SubSeq(data, 1, n)),
                        !.block_pos = h.block_pos + n]
    IN  [n |-> n,
         hasher |-> IF h1.block_pos = BLOCK_SIZE THEN finish_block(h1) ELSE h1]

\* PieceV2Hasher::update (and Write::write)
RECURSIVE update(_, _)
update(h, data) ==
    IF Len(data) = 0 THEN h
    ELSE LET u == update_block(h, data)
         IN  update(u.hasher, SubSeq(data, u.n + 1, Len(data)))

\* PieceV2Hasher::reset
piece_reset(h) ==
    [h EXCEPT !.block_hasher = NewSha, !.block_pos = 0,
              !.merkle = merkle_reset(h.merkle)]

\* A variant of finish that pads to a single root, not to the piece layer.
finish_pad_tree(h) ==
    LET h1 == finish_block(h)
        r == finish_tree(h1.merkle, ZeroDigest)
    IN  [panic |-> FALSE, digest |-> r.digest,
         hasher |-> piece_reset([h1 EXCEPT !.merkle = r.hasher])]

\* PieceV2Hasher::finish: `panic` is the unwrap of a None from finish_layer.
finish(h) ==
    LET h1 == finish_block(h)
        r == finish_layer(h1.merkle, ZeroDigest, h1.piece_length)
        h2 == [h1 EXCEPT !.merkle = r.hasher]
    IN  [panic |-> ~r.some, digest |-> r.digest,
         hasher |-> IF r.some THEN piece_reset(h2) ELSE h2]

\* A variant of finish_first_piece that pads to the piece layer.
finish_first_piece_to_layer(h) ==
    LET h1 == finish_block(h)
        r == finish_layer(h1.merkle, ZeroDigest, h1.piece_length)
    IN  [digest |-> r.digest, hasher |-> [h1 EXCEPT !.merkle = r.hasher]]

\* PieceV2Hasher::finish_first_piece
finish_first_piece(h) ==
    LET h1 == finish_block(h)
        r == finish_tree(h1.merkle, ZeroDigest)
    IN  [digest |-> r.digest, hasher |-> [h1 EXCEPT !.merkle = r.hasher]]


\* ------------------------------------------------ torrent2.rs: results
\* io::Result<(metainfo::File, Vec<sha256::Digest>)>: Ok((f, pieces_layer)),
\* Err(kind), or the panic of an unwrap.
Ok(f, pieces_layer) ==
    [ok |-> TRUE, kind |-> "Ok", file |-> f, pieces_layer |-> pieces_layer]
Err(kind) ==
    [ok |-> FALSE, kind |-> kind, file |-> DefaultFile, pieces_layer |-> <<>>]
Panic == Err("panic")
\* No call has returned yet.
NoResult == Err("none")

\* ------------------------------------------------ torrent2.rs: readers
\* A byte stream: `data` is what it holds, and the read that would deliver
\* offset `fail` (or probe the end of the data there) returns an I/O error;
\* fail = None is a stream whose reads all succeed.
Reader(data, fail) == [data |-> data, fail |-> fail]

\* (&mut r).take(l) and io::copy(&mut piece, &mut hasher): the stream is read
\* from offset pos until l bytes were copied or a read returns 0.
copy_piece(r, pos, l, h) ==
    LET n == Min(l, Len(r.data) - pos)
        reach == IF n < l THEN pos + n ELSE pos + n - 1
    IN  IF r.fail /= None /\ pos <= r.fail /\ r.fail <= reach
        THEN [ok |-> FALSE, n |-> 0, hasher |-> h]
        ELSE [ok |-> TRUE, n |-> n,
              hasher |-> update(h, SubSeq(r.data, pos + 1, pos + n))]

\* The loop of torrent2::checksum_file over the pieces after the first.
RECURSIVE seq_loop(_, _, _, _, _, _)
seq_loop(layers, r, pos, h, pieces_layer, read) ==
    LET l == bytes(layers)
        c == copy_piece(r, pos, l, h)
        f == finish(c.hasher)
    IN  IF ~c.ok THEN Err("Other")
        ELSE IF c.n = 0
        THEN Ok(File(read, root_hash(layers, pieces_layer)), pieces_layer)
        ELSE IF f.panic THEN Panic
        ELSE IF c.n < l
        THEN Ok(File(read + c.n,
                     root_hash(layers, Append(pieces_layer, f.digest))),
                Append(pieces_layer, f.digest))
        ELSE seq_loop(layers, r, pos + c.n, f.hasher,
                      Append(pieces_layer, f.digest), read + c.n)

\* A variant of checksum_file that treats the first piece as any other.
checksum_file_no_first(layers, r) ==
    seq_loop(layers, r, 0, NewPieceHasher(layers), <<>>, 0)

\* torrent2::checksum_file
checksum_file(layers, r) ==
    LET l == bytes(layers)
        c == copy_piece(r, 0, l, NewPieceHasher(layers))
        f == finish(c.hasher)
    IN  IF ~c.ok THEN Err("Other")
        ELSE IF c.n = 0 THEN Ok(DefaultFile, <<>>)
        ELSE IF c.n = l
        THEN IF f.panic THEN Panic
             ELSE seq_loop(layers, r, c.n, f.hasher, <<f.digest>>, c.n)
        ELSE Ok(File(c.n, finish_first_piece(c.hasher).digest), <<>>)

\* ---------------------------------------------- metainfo.rs: PieceLength
\* A u64 is written as the set of the positions of its one bits, so that
\* 2^k is {k} and 0 is {}; an Option<u8> is None or the number.
U64Positions == 0..63

\* n >> 1
shr1(n) == {b - 1 : b \in n \ {0}}

\* The while loop of log2: shifts right until the lowest bit is one.
RECURSIVE log2_loop(_, _)
log2_loop(n, count) ==
    IF 0 \notin n THEN log2_loop(shr1(n), count + 1)
    ELSE [n |-> n, count |-> count]

\* A variant of log2 that counts the trailing zero bits of any number.
log2_trailing_zeros(n) ==
    IF n = {} THEN None ELSE log2_loop(n, 0).count

\* log2
log2(n) ==
    IF n = {} THEN None
    ELSE LET r == log2_loop(n, 0)
         IN  IF shr1(r.n) = {} THEN r.count ELSE None

\* PieceLength::from_bytes: the layers of Some(PieceLength), or None.
from_bytes(n) ==
    LET l == log2(n)
    IN  IF l = None THEN None
        ELSE IF l >= 14 THEN l - 14
        ELSE None

\* PieceLength::bytes on u64: 1 << (layers + 14). A shift by 64 or more
\* panics in a build with overflow checks and shifts by the amount modulo 64
\* in a build without.
bytes_u64(layers, checked) ==
    LET shift == layers + 14
    IN  IF shift < 64 THEN [panic |-> FALSE, bits |-> {shift}]
        ELSE IF checked THEN [panic |-> TRUE, bits |-> {}]
        ELSE [panic |-> FALSE, bits |-> {shift % 64}]

\* A call on a PieceLength: the number given, the layers (given, or
\* returned by from_bytes), the number bytes() returned or its panic, and
\* what from_bytes made of that number.
LengthCall(op, n, p, bits, panic, back) ==
    [op |-> op, n |-> n, p |-> p, bits |-> bits, panic |-> panic, back |-> back]

\* ------------------------------------------------------------ checksum.rs
\* MerkleHasher::add_block (the same loop as merkle::Hasher::add_block)
mh_add_block(s, hash) == Settle(Append(s, Entry(hash)))

\* MerkleHasher::current_layer
mh_current_layer(s) == IF Len(s) = 1 THEN s[1].layer ELSE None

\* The padding loop of MerkleHasher::finish.
RECURSIVE MhPad(_)
MhPad(s) == IF Len(s) /= 1 THEN MhPad(mh_add_block(s, ZeroDigest)) ELSE s

\* MerkleHasher::finish: pads with zeroed digests up to one root, resets.
mh_finish(s) ==
    LET t == MhPad(s)
    IN  [digest |-> t[1].digest, hasher |-> SubSeq(t, 1, 0)]

\* FileV2Hasher::new
NewFileHasher(layers) ==
    [piece_length |-> layers, length |-> 0, ctx |-> NewSha, block_cur |-> 0,
     piece_merkle |-> NewMerkle, pieces_layer |-> <<>>]

\* FileV2Hasher::finish_block
fv_finish_block(t) ==
    [digest |-> into_digest(t.ctx),
     hasher |-> [t EXCEPT !.block_cur = 0, !.ctx = NewSha]]

\* update_block inside FileV2Hasher::update: (n, Option<digest>).
fv_update_block(t, data) ==
    LET needed == BLOCK_SIZE - t.block_cur
        n == Min(needed, Len(data))
        t1 == [t EXCEPT !.ctx = sha_update(t.ctx, SubSeq(data, 1, n)),
                        !.block_cur = t.block_cur + n]
        f == fv_finish_block(t1)
    IN  IF t1.block_cur = BLOCK_SIZE
        THEN [n |-> n, some |-> TRUE, digest |-> f.digest, hasher |-> f.hasher]
        ELSE [n |-> n, some |-> FALSE, digest |-> ZeroDigest, hasher |-> t1]

\* The while loop of FileV2Hasher::update.
RECURSIVE fv_update_loop(_, _)
fv_update_loop(t, data) ==
    IF Len(data) = 0 THEN t
    ELSE LET u == fv_update_block(t, data)
             m == mh_add_block(u.hasher.piece_merkle, u.digest)
             fin == mh_finish(m)
             t2 == IF ~u.some THEN u.hasher
                   ELSE IF mh_current_layer(m) = t.piece_length
                   THEN [u.hasher EXCEPT
                           !.pieces_layer = Append(u.hasher.pieces_layer, fin.digest),
                           !.piece_merkle = fin.hasher]
                   ELSE [u.hasher EXCEPT !.piece_merkle = m]
         IN  fv_update_loop(t2, SubSeq(data, u.n + 1, Len(data)))

\* A variant of update that does not count the bytes.
fv_update_uncounted(t, data) == fv_update_loop(t, data)

\* FileV2Hasher::update (and Write::write)
fv_update(t, data) ==
    fv_update_loop([t EXCEPT !.length = t.length + Len(data)], data)

\* FileV2Hasher::reset
fv_reset(t) ==
    [t EXCEPT !.ctx = NewSha, !.length = 0, !.block_cur = 0,
              !.piece_merkle = SubSeq(t.piece_merkle, 1, 0),
              !.pieces_layer = SubSeq(t.pieces_layer, 1, 0)]

\* The file root of FileV2Hasher::finish: a fresh MerkleHasher over the
\* piece digests.
RECURSIVE MhAddAll(_, _)
MhAddAll(s, ds) ==
    IF Len(ds) = 0 THEN s ELSE MhAddAll(mh_add_block(s, Head(ds)), Tail(ds))

\* FileV2Hasher::finish: the File, the pieces_layer, and the hasher after.
fv_finish(t) ==
    LET b == fv_finish_block(t)
        t1 == IF t.block_cur > 0
              THEN [b.hasher EXCEPT
                      !.piece_merkle = mh_add_block(t.piece_merkle, b.digest)]
              ELSE t
        t2 == IF ~(Len(t1.piece_merkle) = 0)
              THEN [t1 EXCEPT
                      !.pieces_layer = Append(t1.pieces_layer,
                                              mh_finish(t1.piece_merkle).digest),
                      !.piece_merkle = mh_finish(t1.piece_merkle).hasher]
              ELSE t1
        root == mh_finish(MhAddAll(NewMerkle, t2.pieces_layer)).digest
        pieces_layer == IF Len(t2.pieces_layer) > 1 THEN t2.pieces_layer ELSE <<>>
        f == File(t2.length, IF t2.length > 0 THEN root ELSE ZeroDigest)
    IN  [file |-> f, pieces_layer |-> pieces_layer, hasher |-> fv_reset(t2)]

\* checksum::checksum_file: io::copy of the whole stream into a new
\* FileV2Hasher (no write is made for an empty stream), then finish.
stream_checksum_file(layers, r) ==
    LET h == NewFileHasher(layers)
        fin == fv_finish(IF Len(r.data) = 0 THEN h ELSE fv_update(h, r.data))
    IN  IF r.fail /= None THEN Err("Other")
        ELSE Ok(fin.file, fin.pieces_layer)

\* --------------------------------------- torrent2.rs: the parallel engine
\* PiecesSeeker::new over a source positioned at its start; a clone taken
\* before any read is the same (the source's clone opens at offset 0).
NewSeeker == [current_piece |-> None, pos |-> 0]

\* A variant of the seeker that never seeks: it reads on from where it is.
read_piece_noseek(seeker, n, l, data) ==
    LET start == seeker.pos
        got == Min(l, Max(0, Len(data) - start))
        remaining == l - got
    IN  [n |-> got,
         data |-> SubSeq(data, start + 1, start + got),
         seeker |-> [current_piece |-> IF remaining = 0 THEN n + 1 ELSE None,
                     pos |-> start + got]]

\* A variant of the reader that is not limited to one piece.
read_piece_unbounded(seeker, n, l, data) ==
    LET start == IF seeker.current_piece /= n THEN n * l ELSE seeker.pos
        got == Max(0, Len(data) - start)
    IN  [n |-> got,
         data |-> SubSeq(data, start + 1, start + got),
         seeker |-> [current_piece |-> None, pos |-> start + got]]

\* PiecesSeeker::piece(n), the reads of io::copy through the PieceReader up
\* to the end of the data or of the piece, and the reader's drop: the bytes
\* delivered and the seeker afterwards.
read_piece(seeker, n, l, data) ==
    LET start == IF seeker.current_piece /= n THEN n * l ELSE seeker.pos
        got == Min(l, Max(0, Len(data) - start))
        remaining == l - got
    IN  [n |-> got,
         data |-> SubSeq(data, start + 1, start + got),
         seeker |-> [current_piece |-> IF remaining = 0 THEN n + 1 ELSE None,
                     pos |-> start + got]]

\* expected_length in the closure of checksum_file_multithreaded
expected_length(idx, np, fl, l) ==
    IF idx /= np - 1 \/ fl % l = 0 THEN l ELSE fl % l

\* A variant of the closure that accepts whatever number of bytes it read.
map_piece_lenient(seeker, idx, layers, np, fl, data) ==
    LET l == bytes(layers)
        rp == read_piece(seeker, idx, l, data)
        f == finish(update(NewPieceHasher(layers), rp.data))
    IN  [seeker |-> rp.seeker,
         n |-> rp.n,
         kind |-> IF f.panic THEN "panic" ELSE "Ok",
         digest |-> f.digest]

\* The closure given to map_with, for piece idx, when no seek or read fails:
\* n is what io::copy returned, kind the closure's Ok or Err.
map_piece(seeker, idx, layers, np, fl, data) ==
    LET l == bytes(layers)
        rp == read_piece(seeker, idx, l, data)
        f == finish(update(NewPieceHasher(layers), rp.data))
    IN  [seeker |-> rp.seeker,
         n |-> rp.n,
         kind |-> IF rp.n /= expected_length(idx, np, fl, l) THEN "UnexpectedEof"
                  ELSE IF f.panic THEN "panic" ELSE "Ok",
         digest |-> f.digest]

\* A part of the parallel iterator: the piece indices lo..hi-1, the next
\* index to map, the seeker it maps with, whether it may still be split
\* ("new"), is being folded ("run") or has ended ("done"), and what its last
\* closure call read (n) and returned (out).
Job(lo, hi, next, seeker, st, n, out) ==
    [lo |-> lo, hi |-> hi, next |-> next, seeker |-> seeker, st |-> st,
     n |-> n, out |-> out]

\* No digest collected for an index yet.
NoDigest == <<>>

\* A variant of the collection that takes the pieces in reverse order.
Collected_reversed(sl, np) == [i \in 1..np |-> sl[np - i]]

\* The Vec collected from the parts, in index order.
Collected(sl, np) == [i \in 1..np |-> sl[i - 1]]

\* ------------------------------------------------------------- state
VARIABLES
    piece_length,   \* PieceLength.layers of the call
    src,            \* the bytes the source holds
    file_length,    \* the declared length given to checksum_file_multithreaded
    pc,             \* which call runs and where it stands
    result,         \* what the call returned
    num_pieces,     \* checksum_file_multithreaded: the piece count
    min_len,        \* the batch size given to with_min_len
    jobs,           \* the parallel iterator's parts, each with its seeker
    slots,          \* the digest each piece index produced
    saved_error,    \* the error the Result collector holds
    unit,           \* the object a behaviour of SpecUnits drives
    mh,             \* a merkle::Hasher: its stack
    ph,             \* a PieceV2Hasher
    sh,             \* a sha256::Hasher: what its context has absorbed
    rh,             \* the last call of merkle::root_hash: arguments and result
    last,           \* the last operation on the object and what it returned
    fh,             \* a FileV2Hasher
    hist,           \* what the object was given since it was fresh or reset
    call,           \* the last operation's arguments and the object before it
    torrent,        \* a Torrent
    calls,          \* the calls of Torrent::add_file so far, with what each returned
    prev,           \* the torrent as it was before the last call of add_file
    enc,            \* what was encoded, and what the encoder returned
    cli,            \* the command line of a run of main
    tree,           \* what the file system holds at the root given to main
    main_pc,        \* where the run of main stands
    mtorrent,       \* the Torrent main builds
    files,          \* what get_file_list returned (or the one file of the root)
    todo,           \* the files main has still to add
    hashed,         \* what checksum_file returned for the file being added
    io,             \* the file-system operations and hashing done so far
    stdout,         \* the bytes written to standard output
    outcome,        \* how the run ended
    plen,           \* a call of PieceLength::from_bytes or bytes, and its result
    seeking,        \* a source, and the PiecesSeekers and PieceReaders over it
    padding         \* a call of finish_tree or finish_layer, loop turn by turn

engineVars == <<piece_length, src, file_length, pc, result, num_pieces, min_len,
                jobs, slots, saved_error>>
unitVars == <<unit, mh, ph, sh, rh, last, fh, hist, call>>
metaVars == <<torrent, calls, prev, enc>>
mainVars == <<cli, tree, main_pc, mtorrent, files, todo, hashed, io, stdout,
             outcome>>
lengthVars == <<plen>>
seekVars == <<seeking>>
padVars == <<padding>>
vars == <<engineVars, unitVars, metaVars, mainVars, lengthVars, seekVars,
          padVars>>

\* What an operation returned: Some(digest), or None, or nothing to return.
\* `used` tells whether the object had absorbed input when the operation began.
Returned(op, some, digest, used) ==
    [op |-> op, some |-> some, digest |-> digest, used |-> used]
NoOp == Returned("none", FALSE, ZeroDigest, FALSE)

\* The arguments of an operation (a pad digest, a layer, the data), the
\* merkle stack it found, and what the object had been given before it.
CallOf(op, pad, layer, data, stack, given) ==
    [op |-> op, pad |-> pad, layer |-> layer, data |-> data, stack |-> stack,
     given |-> given, file |-> DefaultFile, pieces_layer |-> <<>>]
NoCall == CallOf("none", ZeroDigest, 0, <<>>, <<>>, <<>>)

\* No unit object is driven.
UnitsIdle ==
    /\ unit = "none"
    /\ mh = NewMerkle
    /\ ph = NewPieceHasher(0)
    /\ sh = NewSha
    /\ rh = [layer |-> 0, digests |-> <<>>, out |-> ZeroDigest]
    /\ last = NoOp
    /\ fh = NewFileHasher(0)
    /\ hist = <<>>
    /\ call = NoCall

\* Nothing was encoded yet.
NotEncoded ==
    [what |-> "none", torrent |-> NewTorrent(<<>>, <<>>, 0), file |-> DefaultFile,
     out |-> EncOk(<<>>)]

\* No torrent is being built.
MetaIdle ==
    /\ torrent = NewTorrent(<<>>, <<>>, 0)
    /\ calls = <<>>
    /\ prev = NewTorrent(<<>>, <<>>, 0)
    /\ enc = NotEncoded

\* No run of main is under way.
NoCli == [announce |-> <<>>, piece_length |-> 0]
NoTree == [kind |-> "missing", name_ok |-> FALSE, entries |-> <<>>]
MainIdle ==
    /\ cli = NoCli
    /\ tree = NoTree
    /\ main_pc = "off"
    /\ mtorrent = NewTorrent(<<>>, <<>>, 0)
    /\ files = <<>>
    /\ todo = <<>>
    /\ hashed = NoResult
    /\ io = <<>>
    /\ stdout = <<>>
    /\ outcome = "running"

\* No call on a PieceLength is made.
NoLengthCall == LengthCall("none", {}, None, {}, FALSE, None)
LengthIdle == plen = NoLengthCall

\* No seeker exists, and no padding call is made.
SeekIdle == seeking = [src |-> <<>>, l |-> 0, seekers |-> <<>>, ret |-> "none"]
PadIdle == padding = [pc |-> "off", op |-> "none", pad |-> ZeroDigest, layer |-> 0,
                      stack |-> <<>>, turns |-> 0, some |-> FALSE,
                      digest |-> ZeroDigest]

\* No engine call is made.
EngineIdle ==
    /\ piece_length = 0
    /\ src = <<>>
    /\ file_length = None
    /\ pc = "off"
    /\ result = NoResult
    /\ num_pieces = 0
    /\ min_len = 0
    /\ jobs = {}
    /\ slots = <<>>
    /\ saved_error = "none"

\* The offsets at which a read of the data may fail, and None for no failure.
FailPoints(data) == {None} \cup (0..Len(data))

\* The state before a call: an input is chosen, nothing has run.
Init ==
    /\ piece_length \in 0..MaxLayers
    /\ \E n \in 0..Min(MaxPieces * bytes(piece_length), MaxBlocks * BLOCK_SIZE),
          k \in Strides :
          src = Source(n, k)
    /\ file_length = None
    /\ pc = "idle"
    /\ result = NoResult
    /\ num_pieces = 0
    /\ min_len = 0
    /\ jobs = {}
    /\ slots = <<>>
    /\ saved_error = "none"
    /\ UnitsIdle
    /\ MetaIdle
    /\ MainIdle
    /\ LengthIdle
    /\ SeekIdle
    /\ PadIdle

\* A call of torrent2::checksum_file on the source read as a stream.
SeqRun ==
    /\ pc = "idle"
    /\ \E fail \in FailPoints(src) :
          result' = checksum_file(piece_length, Reader(src, fail))
    /\ pc' = "seq_done"
    /\ UNCHANGED <<piece_length, src, file_length, num_pieces, min_len, jobs,
                   slots, saved_error, unitVars, metaVars, mainVars,
                   lengthVars,
                   seekVars, padVars>>

\* A call of checksum::checksum_file on the source read as a stream.
StreamRun ==
    /\ pc = "idle"
    /\ \E fail \in FailPoints(src) :
          result' = stream_checksum_file(piece_length, Reader(src, fail))
    /\ pc' = "stream_done"
    /\ UNCHANGED <<piece_length, src, file_length, num_pieces, min_len, jobs,
                   slots, saved_error, unitVars, metaVars, mainVars,
                   lengthVars,
                   seekVars, padVars>>

\* The lengths a caller declares for a source of n bytes: the true one, or
\* one byte or one piece less or more.
DeclaredLengths(n, l) == {n + d : d \in {0 - l, 0 - 1, 0, 1, l}} \cap Nat

\* checksum_file_multithreaded up to the dispatch: a file of at most one
\* piece is handed to checksum_file over seeker.piece(0), which delivers at
\* most one piece of the source; otherwise the index range becomes the
\* parallel iterator.
MTCall ==
    /\ pc = "idle"
    /\ \E fl \in DeclaredLengths(Len(src), bytes(piece_length)) :
         LET l == bytes(piece_length)
             np == (fl \div l) + (IF fl % l > 0 THEN 1 ELSE 0)
             first == SubSeq(src, 1, Min(l, Len(src)))
         IN  /\ file_length' = fl
             /\ num_pieces' = np
             /\ IF np <= 1
                THEN /\ \E fail \in {None} \cup (0..Min(Len(first), l - 1)) :
                          result' = checksum_file(piece_length, Reader(first, fail))
                     /\ pc' = "mt_done"
                     /\ UNCHANGED <<min_len, jobs, slots>>
                ELSE /\ \E batch \in 1..MaxBatch :
                          min_len' = Max((batch * BLOCK_SIZE) \div l, 1)
                     /\ jobs' = {Job(0, np, 0, NewSeeker, "new", None, "none")}
                     /\ slots' = [i \in 0..(np - 1) |-> NoDigest]
                     /\ pc' = "par"
                     /\ UNCHANGED result
    /\ UNCHANGED <<piece_length, src, saved_error, unitVars, metaVars, mainVars,
                   lengthVars,
                   seekVars, padVars>>

\* The parallel iterator splits a part it has not started on into two
\* halves, each of at least min_len indices; the seeker is cloned.
Split(j) ==
    /\ pc = "par"
    /\ j.st = "new"
    /\ (j.hi - j.lo) \div 2 >= min_len
    /\ LET mid == j.lo + ((j.hi - j.lo) \div 2)
       IN  jobs' = (jobs \ {j}) \cup
                     {Job(j.lo, mid, j.lo, j.seeker, "new", None, "none"),
                      Job(mid, j.hi, mid, j.seeker, "new", None, "none")}
    /\ UNCHANGED <<piece_length, src, file_length, pc, result, num_pieces,
                   min_len, slots, saved_error, unitVars, metaVars, mainVars,
                   lengthVars,
                   seekVars, padVars>>

\* The Result collector keeps the first Err it is given (a panic unwinds
\* through it).
keep_error(saved, kind) ==
    IF saved = "none" \/ kind = "panic" THEN kind ELSE saved

\* A worker maps the next index of its part: the closure runs, Ok(digest)
\* goes to the index's place, and an Err goes to the collector and ends the
\* part.
MapPiece(j) ==
    /\ pc = "par"
    /\ j.st \in {"new", "run"}
    /\ j.next < j.hi
    /\ LET m == map_piece(j.seeker, j.next, piece_length, num_pieces,
                          file_length, src)
       IN  IF m.kind = "Ok"
           THEN /\ slots' = [slots EXCEPT ![j.next] = m.digest]
                /\ jobs' = (jobs \ {j}) \cup
                     {Job(j.lo, j.hi, j.next + 1, m.seeker,
                          IF j.next + 1 = j.hi THEN "done" ELSE "run",
                          m.n, m.kind)}
                /\ UNCHANGED saved_error
           ELSE /\ saved_error' = keep_error(saved_error, m.kind)
                /\ jobs' = (jobs \ {j}) \cup
                     {Job(j.lo, j.hi, j.next, m.seeker, "done", m.n, m.kind)}
                /\ UNCHANGED slots
    /\ UNCHANGED <<piece_length, src, file_length, pc, result, num_pieces,
                   min_len, unitVars, metaVars, mainVars,
                   lengthVars,
                   seekVars, padVars>>

\* A worker's seek or read fails: the closure returns the I/O error.
MapIoError(j) ==
    /\ pc = "par"
    /\ j.st \in {"new", "run"}
    /\ j.next < j.hi
    /\ saved_error' = keep_error(saved_error, "Other")
    /\ jobs' = (jobs \ {j}) \cup
                 {Job(j.lo, j.hi, j.next, j.seeker, "done", None, "Other")}
    /\ UNCHANGED <<piece_length, src, file_length, pc, result, num_pieces,
                   min_len, slots, unitVars, metaVars, mainVars,
                   lengthVars,
                   seekVars, padVars>>

\* A variant of the return that does not wait for the parts to end.
MTReturn_early ==
    /\ pc = "par"
    /\ result' = IF saved_error = "panic" THEN Panic
                 ELSE IF saved_error /= "none" THEN Err(saved_error)
                 ELSE LET pieces_layer == Collected(slots, num_pieces)
                      IN  Ok(File(file_length,
                                  root_hash(piece_length, pieces_layer)),
                             pieces_layer)
    /\ pc' = "mt_done"
    /\ UNCHANGED <<piece_length, src, file_length, num_pieces, min_len, jobs,
                   slots, saved_error, unitVars, metaVars, mainVars,
                   lengthVars,
                   seekVars, padVars>>

\* Every part has ended, having mapped its indices or seen that the
\* collector holds an error: collect()? gives the kept error or the digests
\* in index order, and the file root is computed over them.
MTReturn ==
    /\ pc = "par"
    /\ saved_error /= "none" \/ \A j \in jobs : j.st = "done"
    /\ result' = IF saved_error = "panic" THEN Panic
                 ELSE IF saved_error /= "none" THEN Err(saved_error)
                 ELSE LET pieces_layer == Collected(slots, num_pieces)
                      IN  Ok(File(file_length,
                                  root_hash(piece_length, pieces_layer)),
                             pieces_layer)
    /\ pc' = "mt_done"
    /\ UNCHANGED <<piece_length, src, file_length, num_pieces, min_len, jobs,
                   slots, saved_error, unitVars, metaVars, mainVars,
                   lengthVars,
                   seekVars, padVars>>

Next ==
    \/ SeqRun
    \/ StreamRun
    \/ MTCall
    \/ \E j \in jobs : Split(j)
    \/ \E j \in jobs : MapPiece(j)
    \/ \E j \in jobs : MapIoError(j)
    \/ MTReturn

Spec == Init /\ [][Next]_vars

\* ------------------------------------------------- the objects, one by one
\* SpecUnits drives one object at a time through its public operations, in
\* any order and with reuse after a finish: a merkle::Hasher, a
\* PieceV2Hasher, a sha256::Hasher, a FileV2Hasher, or single calls of
\* merkle::root_hash.
MaxLeaves == 5       \* leaves a merkle::Hasher or root_hash is given
MaxLeafKinds == 1    \* distinct non-zero leaf digests
MaxChunk == 3        \* bytes handed to one update
MaxCtx == 3          \* bytes a sha256::Hasher absorbs before a finish

\* The leaf digests handed to the merkle operations.
LeafPool == {ZeroDigest} \cup {into_digest(<<k>>) : k \in 1..MaxLeafKinds}
LeafLists == UNION {[1..k -> LeafPool] : k \in 0..MaxLeaves}

\* The number of leaves a merkle stack stands for.
RECURSIVE LeafCount(_)
LeafCount(s) ==
    IF Len(s) = 0 THEN 0 ELSE Pow2(Head(s).layer) + LeafCount(Tail(s))

\* The bytes a PieceV2Hasher has absorbed since it was fresh.
Written(h) == LeafCount(h.merkle) * BLOCK_SIZE + h.block_pos

\* The next n bytes of a stream of which `from` bytes were already handed over.
Chunk(from, n) == [i \in 1..n |-> (from + i - 1) % 256]

InitUnits ==
    /\ EngineIdle
    /\ MetaIdle
    /\ MainIdle
    /\ LengthIdle
    /\ SeekIdle
    /\ PadIdle
    /\ unit \in {"merkle", "piece", "sha", "root_hash", "file"}
    /\ mh = NewMerkle
    /\ \E layers \in 0..MaxLayers :
          /\ ph = NewPieceHasher(IF unit = "piece" THEN layers ELSE 0)
          /\ fh = NewFileHasher(IF unit = "file" THEN layers ELSE 0)
    /\ sh = NewSha
    /\ rh = [layer |-> 0, digests |-> <<>>, out |-> ZeroDigest]
    /\ last = NoOp
    /\ hist = <<>>
    /\ call = NoCall

\* A variant of add_block that pushes the entry and combines nothing.
MerkleAddBlock_push ==
    /\ unit = "merkle"
    /\ LeafCount(mh) < MaxLeaves
    /\ \E d \in LeafPool :
          /\ mh' = Append(mh, Entry(d))
          /\ hist' = Append(hist, d)
          /\ call' = CallOf("add_block", d, 0, <<>>, mh, hist)
    /\ last' = Returned("add_block", FALSE, ZeroDigest, ~is_empty(mh))
    /\ UNCHANGED <<engineVars, metaVars, mainVars, lengthVars, seekVars, padVars,
                   unit, ph, sh, rh, fh>>

\* merkle::Hasher::add_block
MerkleAddBlock ==
    /\ unit = "merkle"
    /\ LeafCount(mh) < MaxLeaves
    /\ \E d \in LeafPool :
          /\ mh' = add_block(mh, d)
          /\ hist' = Append(hist, d)
          /\ call' = CallOf("add_block", d, 0, <<>>, mh, hist)
    /\ last' = Returned("add_block", FALSE, ZeroDigest, ~is_empty(mh))
    /\ UNCHANGED <<engineVars, metaVars, mainVars, lengthVars, seekVars, padVars,
                   unit, ph, sh, rh, fh>>

\* merkle::Hasher::finish_tree
MerkleFinishTree ==
    /\ unit = "merkle"
    /\ \E pad \in LeafPool :
          LET r == finish_tree(mh, pad)
          IN  /\ mh' = r.hasher
              /\ last' = Returned("finish_tree", TRUE, r.digest, ~is_empty(mh))
              /\ call' = CallOf("finish_tree", pad, 0, <<>>, mh, hist)
    /\ hist' = <<>>
    /\ UNCHANGED <<engineVars, metaVars, mainVars, lengthVars, seekVars, padVars,
                   unit, ph, sh, rh, fh>>

\* merkle::Hasher::finish_layer
MerkleFinishLayer ==
    /\ unit = "merkle"
    /\ \E pad \in LeafPool, layer \in 0..(MaxLayers + 1) :
          LET r == finish_layer(mh, pad, layer)
          IN  /\ mh' = r.hasher
              /\ last' = Returned("finish_layer", r.some, r.digest, ~is_empty(mh))
              /\ call' = CallOf("finish_layer", pad, layer, <<>>, mh, hist)
    /\ hist' = <<>>
    /\ UNCHANGED <<engineVars, metaVars, mainVars, lengthVars, seekVars, padVars,
                   unit, ph, sh, rh, fh>>

\* merkle::Hasher::reset
MerkleReset ==
    /\ unit = "merkle"
    /\ mh' = merkle_reset(mh)
    /\ last' = Returned("reset", FALSE, ZeroDigest, ~is_empty(mh))
    /\ call' = CallOf("reset", ZeroDigest, 0, <<>>, mh, hist)
    /\ hist' = <<>>
    /\ UNCHANGED <<engineVars, metaVars, mainVars, lengthVars, seekVars, padVars,
                   unit, ph, sh, rh, fh>>

\* PieceV2Hasher::update with a slice of 0..MaxChunk bytes, up to one block
\* more than a piece holds in all.
PieceUpdate ==
    /\ unit = "piece"
    /\ \E n \in 0..MaxChunk :
          /\ Len(hist) + n <= bytes(ph.piece_length) + BLOCK_SIZE
          /\ ph' = update(ph, Chunk(Len(hist), n))
          /\ hist' = hist \o Chunk(Len(hist), n)
          /\ call' = CallOf("update", ZeroDigest, 0, Chunk(Len(hist), n),
                            ph.merkle, hist)
    /\ last' = Returned("update", FALSE, ZeroDigest, Written(ph) > 0)
    /\ UNCHANGED <<engineVars, metaVars, mainVars, lengthVars, seekVars, padVars,
                   unit, mh, sh, rh, fh>>

\* PieceV2Hasher::finish; `some` is FALSE when the call panics, and the
\* call keeps the slice of the update that came right before it.
PieceFinish ==
    /\ unit = "piece"
    /\ LET r == finish(ph)
       IN  /\ ph' = r.hasher
           /\ last' = Returned("finish", ~r.panic, r.digest, Written(ph) > 0)
    /\ call' = CallOf("finish", ZeroDigest, 0,
                      IF last.op = "update" THEN call.data ELSE <<>>,
                      ph.merkle, hist)
    /\ hist' = <<>>
    /\ UNCHANGED <<engineVars, metaVars, mainVars, lengthVars, seekVars, padVars,
                   unit, mh, sh, rh, fh>>

\* PieceV2Hasher::finish_first_piece
PieceFinishFirstPiece ==
    /\ unit = "piece"
    /\ LET r == finish_first_piece(ph)
       IN  /\ ph' = r.hasher
           /\ last' = Returned("finish_first_piece", TRUE, r.digest,
                               Written(ph) > 0)
    /\ call' = CallOf("finish_first_piece", ZeroDigest, 0, <<>>, ph.merkle, hist)
    /\ hist' = <<>>
    /\ UNCHANGED <<engineVars, metaVars, mainVars, lengthVars, seekVars, padVars,
                   unit, mh, sh, rh, fh>>

\* sha256::Hasher::update
ShaUpdate ==
    /\ unit = "sha"
    /\ \E n \in 1..MaxChunk :
          /\ Len(sh) + n <= MaxCtx
          /\ sh' = sha_update(sh, Chunk(Len(sh), n))
          /\ hist' = hist \o Chunk(Len(sh), n)
          /\ call' = CallOf("sha_update", ZeroDigest, 0, Chunk(Len(sh), n),
                            <<>>, hist)
    /\ last' = Returned("sha_update", FALSE, ZeroDigest, Len(sh) > 0)
    /\ UNCHANGED <<engineVars, metaVars, mainVars, lengthVars, seekVars, padVars,
                   unit, mh, ph, rh, fh>>

\* sha256::Hasher::finish
ShaFinish ==
    /\ unit = "sha"
    /\ LET r == sha_finish(sh)
       IN  /\ sh' = r.hasher
           /\ last' = Returned("sha_finish", TRUE, r.digest, Len(sh) > 0)
    /\ call' = CallOf("sha_finish", ZeroDigest, 0, <<>>, <<>>, hist)
    /\ hist' = <<>>
    /\ UNCHANGED <<engineVars, metaVars, mainVars, lengthVars, seekVars, padVars,
                   unit, mh, ph, rh, fh>>

\* A call of merkle::root_hash on a list of digests
RootHashCall ==
    /\ unit = "root_hash"
    /\ last = NoOp
    /\ \E layer \in 0..MaxLayers, digests \in LeafLists :
          LET out == root_hash(layer, digests)
          IN  /\ rh' = [layer |-> layer, digests |-> digests, out |-> out]
              /\ last' = Returned("root_hash", TRUE, out, FALSE)
    /\ UNCHANGED <<engineVars, metaVars, mainVars, lengthVars, seekVars, padVars,
                   unit, mh, ph, sh, fh, hist, call>>

\* The most bytes a FileV2Hasher is given between two resets.
MaxWritten(layers) == Min(MaxPieces * bytes(layers), MaxBlocks * BLOCK_SIZE)

\* FileV2Hasher::update (and Write::write) with a slice of 0..MaxChunk bytes
FileUpdate ==
    /\ unit = "file"
    /\ \E n \in 0..MaxChunk :
          /\ Len(hist) + n <= MaxWritten(fh.piece_length)
          /\ fh' = fv_update(fh, Chunk(Len(hist), n))
          /\ hist' = hist \o Chunk(Len(hist), n)
          /\ call' = CallOf("file_update", ZeroDigest, 0, Chunk(Len(hist), n),
                            fh.piece_merkle, hist)
    /\ last' = Returned("file_update", FALSE, ZeroDigest, Len(hist) > 0)
    /\ UNCHANGED <<engineVars, metaVars, mainVars, lengthVars, seekVars, padVars,
                   unit, mh, ph, sh, rh>>

\* FileV2Hasher::finish: the File and the pieces_layer it returned are kept
\* with the call.
FileFinish ==
    /\ unit = "file"
    /\ fh' = fv_finish(fh).hasher
    /\ call' = [CallOf("file_finish", ZeroDigest, 0, <<>>, fh.piece_merkle, hist)
                  EXCEPT !.file = fv_finish(fh).file,
                         !.pieces_layer = fv_finish(fh).pieces_layer]
    /\ last' = Returned("file_finish", TRUE, call'.file.pieces_root, Len(hist) > 0)
    /\ hist' = <<>>
    /\ UNCHANGED <<engineVars, metaVars, mainVars, lengthVars, seekVars, padVars,
                   unit, mh, ph, sh, rh>>

\* FileV2Hasher::reset
FileReset ==
    /\ unit = "file"
    /\ fh' = fv_reset(fh)
    /\ call' = CallOf("file_reset", ZeroDigest, 0, <<>>, fh.piece_merkle, hist)
    /\ last' = Returned("file_reset", FALSE, ZeroDigest, Len(hist) > 0)
    /\ hist' = <<>>
    /\ UNCHANGED <<engineVars, metaVars, mainVars, lengthVars, seekVars, padVars,
                   unit, mh, ph, sh, rh>>

NextUnits ==
    \/ MerkleAddBlock
    \/ MerkleFinishTree
    \/ MerkleFinishLayer
    \/ MerkleReset
    \/ PieceUpdate
    \/ PieceFinish
    \/ PieceFinishFirstPiece
    \/ ShaUpdate
    \/ ShaFinish
    \/ RootHashCall
    \/ FileUpdate
    \/ FileFinish
    \/ FileReset

SpecUnits == InitUnits /\ [][NextUnits]_vars

\* ------------------------------------------------- building a torrent
\* SpecTorrent builds a torrent with Torrent::new and calls of add_file, and
\* encodes it; it also encodes File and Torrent values written out field by
\* field, as the unit tests of metainfo.rs do.
MaxAdds == 2         \* calls of add_file on one torrent

\* Path::join of components that hold no '/'.
RECURSIVE Join(_)
Join(cs) == IF Len(cs) = 1 THEN cs[1] ELSE cs[1] \o <<47>> \o Join(Tail(cs))

\* k components "a".
Deep(k) == [i \in 1..k |-> <<97>>]

\* The paths given to add_file, as lists of components: "", "a", "b",
\* "a/b", "a/b/a", and a path of MAX_FILE_PATH_DEPTH components and one of
\* one more.
Components ==
    {<< <<>> >>, << <<97>> >>, << <<98>> >>, << <<97>>, <<98>> >>,
     << <<97>>, <<98>>, <<97>> >>,
     Deep(MAX_FILE_PATH_DEPTH), Deep(MAX_FILE_PATH_DEPTH + 1)}
Paths == {Join(cs) : cs \in Components}

\* The digests used as pieces roots and in piece-digest lists.
Root1 == into_digest(<<1>>)
Root2 == into_digest(<<2>>)
PieceX == into_digest(<<3>>)
PieceY == ZeroDigest

\* The files given to add_file, each with its piece-digest list: the
\* default file, a file of less than a piece, two files under one pieces
\* root with different lists, and a file under another root.
Hashed(f, pieces_layer) == [f |-> f, pieces_layer |-> pieces_layer]
HashedFiles ==
    {Hashed(DefaultFile, <<>>),
     Hashed(File(1, Root2), <<>>),
     Hashed(File(4, Root2), <<PieceX, PieceY>>),
     Hashed(File(4, Root2), <<PieceY, PieceX>>),
     Hashed(File(6, Root1), <<PieceX, PieceX, PieceY>>)}

\* File values written out field by field.
LiteralFiles ==
    {File(length, root) : length \in {0, 1, 1024}, root \in {ZeroDigest, Root1}}

\* Torrent values written out field by field: one file, and piece layers
\* that may hold an empty list.
LiteralTorrents ==
    {[NewTorrent(<<120>>, <<116>>, layers) EXCEPT
         !.file_tree = Put(NoEntries, <<97>>, FileElement(f)),
         !.piece_layers = piece_layers] :
       layers \in {0, 1},
       f \in {File(0, Root1), File(4, Root2)},
       piece_layers \in UNION {[K -> {<<>>, <<PieceX, PieceY>>}] :
                                  K \in SUBSET {Root1, Root2}}}

Call(path, h, ret) ==
    [path |-> path, f |-> h.f, pieces_layer |-> h.pieces_layer, ret |-> ret]
Encoded(what, t, f, out) == [what |-> what, torrent |-> t, file |-> f, out |-> out]

InitTorrent ==
    /\ EngineIdle
    /\ UnitsIdle
    /\ MetaIdle
    /\ MainIdle
    /\ LengthIdle
    /\ SeekIdle
    /\ PadIdle

\* A call of Torrent::add_file
AddFile ==
    /\ pc = "off"
    /\ unit = "none"
    /\ enc.what = "none"
    /\ Len(calls) < MaxAdds
    /\ \E path \in Paths, h \in HashedFiles :
          LET r == add_file(torrent, path, h.f, h.pieces_layer)
          IN  /\ torrent' = r.torrent
              /\ calls' = Append(calls, Call(path, h, r.ret))
    /\ prev' = torrent
    /\ UNCHANGED <<engineVars, unitVars, mainVars, lengthVars, enc,
                   seekVars, padVars>>

\* torrent.to_bencode() of the torrent built so far
EncodeTorrent ==
    /\ pc = "off"
    /\ unit = "none"
    /\ enc.what = "none"
    /\ enc' = Encoded("torrent", torrent, DefaultFile, to_bencode(torrent))
    /\ UNCHANGED <<engineVars, unitVars, mainVars, lengthVars, torrent, calls, prev,
                   seekVars, padVars>>

\* to_bencode() of a Torrent value written out field by field
EncodeLiteral ==
    /\ pc = "off"
    /\ unit = "none"
    /\ enc.what = "none"
    /\ calls = <<>>
    /\ \E t \in LiteralTorrents :
          enc' = Encoded("literal", t, DefaultFile, to_bencode(t))
    /\ UNCHANGED <<engineVars, unitVars, mainVars, lengthVars, torrent, calls, prev,
                   seekVars, padVars>>

\* to_bencode() of a File value
EncodeFile ==
    /\ pc = "off"
    /\ unit = "none"
    /\ enc.what = "none"
    /\ calls = <<>>
    /\ \E f \in LiteralFiles :
          enc' = Encoded("file", NewTorrent(<<>>, <<>>, 0), f, file_to_bencode(f))
    /\ UNCHANGED <<engineVars, unitVars, mainVars, lengthVars, torrent, calls, prev,
                   seekVars, padVars>>

NextTorrent ==
    \/ AddFile
    \/ EncodeTorrent
    \/ EncodeLiteral
    \/ EncodeFile

SpecTorrent == InitTorrent /\ [][NextTorrent]_vars

\* ---------------------------------------------------------------- main.rs
MaxEntries == 2      \* entries the walk of the root directory yields

\* clap's parse of the --piece-length argument into `piece_length: u8`.
parse_u8(n) ==
    IF 0 <= n /\ n <= 255 THEN [ok |-> TRUE, value |-> n]
    ELSE [ok |-> FALSE, value |-> 0]

\* An entry WalkDir yields below the root: its path relative to the root,
\* whether it is a regular file, and the bytes a file holds.
DirEntry(path, is_file, data) == [path |-> path, is_file |-> is_file, data |-> data]

\* The announce URL and the file name of the root ("x" and "a").
AnnounceUrl == <<120>>
RootName == <<97>>

\* torrent_name_from_path: None for a root without a file name.
torrent_name_from_path(t) ==
    IF t.name_ok THEN [some |-> TRUE, name |-> RootName]
    ELSE [some |-> FALSE, name |-> <<>>]

\* Result<Vec<(String, u64)>> of get_file_list
ListOk(ret) == [ok |-> TRUE, err |-> "none", files |-> ret]
ListErr(err) == [ok |-> FALSE, err |-> err, files |-> <<>>]

\* The loop of get_file_list from entry i on; `fail` is the index of the
\* entry for which the walk (or its metadata) returns an error, or None.
RECURSIVE get_file_list_from(_, _, _, _)
get_file_list_from(entries, i, fail, ret) ==
    IF i > Len(entries) THEN ListOk(ret)
    ELSE LET entry == entries[i]
         IN  IF fail = i THEN ListErr("walk")
             ELSE IF ~entry.is_file
             THEN get_file_list_from(entries, i + 1, fail, ret)
             ELSE IF Len(split(entry.path)) >= MAX_FILE_PATH_DEPTH
             THEN ListErr("depth")
             ELSE get_file_list_from(entries, i + 1, fail,
                      Append(ret, <<entry.path, Len(entry.data)>>))

\* get_file_list
get_file_list(entries, fail) == get_file_list_from(entries, 1, fail, <<>>)

\* The bytes fs::File::open(root.join(path)) gives access to.
DataAt(t, path) ==
    LET S == {i \in 1..Len(t.entries) :
                 t.entries[i].is_file /\ t.entries[i].path = path}
    IN  t.entries[CHOOSE i \in S : \A j \in S : i <= j].data

\* An operation on the file system, or the hashing of a file's bytes.
Op(op, path) == [op |-> op, path |-> path]

\* A variant of the check that takes every return of add_file for success.
conflict_check_ignored(ret) == [ok |-> TRUE, err |-> "none"]

\* `if !torrent.add_file(..) { return Err(Error::msg("conflicting file")) }`
conflict_check(ret) ==
    IF ~ret THEN [ok |-> FALSE, err |-> "conflict"] ELSE [ok |-> TRUE, err |-> "none"]

\* The --piece-length arguments given: in and out of the range of a u8.
Exponents == {0, 1, 27, 256}

\* What the walk may yield: files "a" (empty), "a/b" (three pieces when the
\* exponent is 0), "b", a directory "a", and files one component short of
\* MAX_FILE_PATH_DEPTH, of MAX_FILE_PATH_DEPTH components and of one
\* component more. A list may name
\* "a" as a file and as a directory: the tree may change during the walk.
EntryPool ==
    {DirEntry(<<97>>, TRUE, <<>>),
     DirEntry(<<97, 47, 98>>, TRUE, Source(2 * BLOCK_SIZE + 1, 1)),
     DirEntry(<<98>>, TRUE, <<7>>),
     DirEntry(<<97>>, FALSE, <<>>),
     DirEntry(Join(Deep(MAX_FILE_PATH_DEPTH - 1)), TRUE, <<7>>),
     DirEntry(Join(Deep(MAX_FILE_PATH_DEPTH)), TRUE, <<7>>),
     DirEntry(Join(Deep(MAX_FILE_PATH_DEPTH + 1)), TRUE, <<7>>)}

\* The roots given to main: nothing at the path, a root without a file
\* name, a regular file, and a directory with the entries of its walk.
Tree(kind, name_ok, entries) ==
    [kind |-> kind, name_ok |-> name_ok, entries |-> entries]
Trees ==
    {Tree("missing", TRUE, <<>>), Tree("dir", FALSE, <<>>)}
    \cup {Tree("file", TRUE, <<DirEntry(RootName, TRUE, data)>>) :
             data \in {<<>>, Source(2 * BLOCK_SIZE + 1, 1)}}
    \cup {Tree("dir", TRUE, entries) :
             entries \in UNION {[1..n -> EntryPool] : n \in 0..MaxEntries}}

InitMain ==
    /\ EngineIdle
    /\ UnitsIdle
    /\ MetaIdle
    /\ LengthIdle
    /\ SeekIdle
    /\ PadIdle
    /\ cli \in {[announce |-> AnnounceUrl, piece_length |-> e] : e \in Exponents}
    /\ tree \in Trees
    /\ main_pc = "parse"
    /\ mtorrent = NewTorrent(<<>>, <<>>, 0)
    /\ files = <<>>
    /\ todo = <<>>
    /\ hashed = NoResult
    /\ io = <<>>
    /\ stdout = <<>>
    /\ outcome = "running"

\* Cli::parse
MainParse ==
    /\ main_pc = "parse"
    /\ IF parse_u8(cli.piece_length).ok
       THEN /\ main_pc' = "name"
            /\ outcome' = outcome
       ELSE /\ main_pc' = "done"
            /\ outcome' = "usage"
    /\ UNCHANGED <<engineVars, unitVars, metaVars, lengthVars, cli, tree,
                   mtorrent, files, todo, hashed, io, stdout,
                   seekVars, padVars>>

\* PieceLength { layers }, torrent_name_from_path and Torrent::new
MainNewTorrent ==
    /\ main_pc = "name"
    /\ LET name == torrent_name_from_path(tree)
       IN  IF name.some
           THEN /\ mtorrent' = NewTorrent(cli.announce, name.name,
                                          parse_u8(cli.piece_length).value)
                /\ main_pc' = "stat"
                /\ outcome' = outcome
           ELSE /\ mtorrent' = mtorrent
                /\ main_pc' = "done"
                /\ outcome' = "name"
    /\ UNCHANGED <<engineVars, unitVars, metaVars, lengthVars, cli, tree,
                   files, todo, hashed, io, stdout,
                   seekVars, padVars>>

\* fs::metadata(&root), and the file name as the one file of a root that is
\* a regular file
MainStat ==
    /\ main_pc = "stat"
    /\ io' = Append(io, Op("stat", RootName))
    /\ IF tree.kind = "missing"
       THEN /\ main_pc' = "done"
            /\ outcome' = "stat"
            /\ UNCHANGED <<files, todo>>
       ELSE IF tree.kind = "file"
       THEN /\ main_pc' = "add"
            /\ files' = <<<<mtorrent.name, Len(tree.entries[1].data)>>>>
            /\ todo' = files'
            /\ outcome' = outcome
       ELSE /\ main_pc' = "list"
            /\ UNCHANGED <<files, todo, outcome>>
    /\ UNCHANGED <<engineVars, unitVars, metaVars, lengthVars, cli, tree,
                   mtorrent, hashed, stdout,
                   seekVars, padVars>>

\* get_file_list(&root)
MainGetFileList ==
    /\ main_pc = "list"
    /\ io' = Append(io, Op("walk", RootName))
    /\ \E fail \in {None} \cup (1..Len(tree.entries)) :
          LET r == get_file_list(tree.entries, fail)
          IN  IF r.ok
              THEN /\ files' = r.files
                   /\ todo' = r.files
                   /\ main_pc' = "add"
                   /\ outcome' = outcome
              ELSE /\ UNCHANGED <<files, todo>>
                   /\ main_pc' = "done"
                   /\ outcome' = r.err
    /\ UNCHANGED <<engineVars, unitVars, metaVars, lengthVars, cli, tree,
                   mtorrent, hashed, stdout,
                   seekVars, padVars>>

\* add_file of main.rs, first step: fs::File::open(root.join(path)), with `?`
MainOpen ==
    /\ main_pc = "add"
    /\ Len(todo) > 0
    /\ io' = Append(io, Op("open", Head(todo)[1]))
    /\ \E opens \in BOOLEAN :
          IF opens
          THEN /\ main_pc' = "opened"
               /\ outcome' = outcome
          ELSE /\ main_pc' = "done"
               /\ outcome' = "open"
    /\ UNCHANGED <<engineVars, unitVars, metaVars, lengthVars, cli, tree,
                   mtorrent, files, todo, hashed, stdout,
                   seekVars, padVars>>

\* add_file of main.rs, second step: checksum::checksum_file over the open
\* file, with `?`; `fail` is the offset whose read returns an error, or None.
MainChecksum ==
    /\ main_pc = "opened"
    /\ \E fail \in {None, 0} :
          hashed' = stream_checksum_file(mtorrent.piece_length,
                        Reader(DataAt(tree, Head(todo)[1]), fail))
    /\ IF hashed'.ok
       THEN /\ io' = io \o <<Op("read", Head(todo)[1]), Op("hashed", Head(todo)[1])>>
            /\ main_pc' = "hashed"
            /\ outcome' = outcome
       ELSE /\ io' = Append(io, Op("read", Head(todo)[1]))
            /\ main_pc' = "done"
            /\ outcome' = "read"
    /\ UNCHANGED <<engineVars, unitVars, metaVars, lengthVars, cli, tree,
                   mtorrent, files, todo, stdout,
                   seekVars, padVars>>

\* add_file of main.rs, last step: torrent.add_file(&path, f, pieces_layer)
\* and the error for a conflicting file; on success the loop moves on.
MainTorrentAdd ==
    /\ main_pc = "hashed"
    /\ LET r == add_file(mtorrent, Head(todo)[1], hashed.file, hashed.pieces_layer)
       IN  /\ mtorrent' = r.torrent
           /\ IF conflict_check(r.ret).ok
              THEN /\ todo' = Tail(todo)
                   /\ main_pc' = "add"
                   /\ outcome' = outcome
              ELSE /\ todo' = todo
                   /\ main_pc' = "done"
                   /\ outcome' = conflict_check(r.ret).err
    /\ UNCHANGED <<engineVars, unitVars, metaVars, lengthVars, cli, tree,
                   files, hashed, io, stdout,
                   seekVars, padVars>>

\* torrent.to_bencode().unwrap() and io::stdout().write_all(&encoded).unwrap();
\* n is the number of bytes standard output took before write_all returned.
MainWrite ==
    /\ main_pc = "add"
    /\ Len(todo) = 0
    /\ LET encoded == to_bencode(mtorrent)
       IN  IF ~encoded.ok
           THEN /\ stdout' = stdout
                /\ outcome' = "panic"
           ELSE \E n \in {0, 1, Len(encoded.out)} :
                   /\ stdout' = SubSeq(encoded.out, 1, n)
                   /\ outcome' = IF n = Len(encoded.out) THEN "ok" ELSE "panic"
    /\ main_pc' = "done"
    /\ UNCHANGED <<engineVars, unitVars, metaVars, lengthVars, cli, tree,
                   mtorrent, files, todo, hashed, io,
                   seekVars, padVars>>

NextMain ==
    \/ MainParse
    \/ MainNewTorrent
    \/ MainStat
    \/ MainGetFileList
    \/ MainOpen
    \/ MainChecksum
    \/ MainTorrentAdd
    \/ MainWrite

SpecMain == InitMain /\ [][NextMain]_vars

\* ------------------------------------------------ calls on a PieceLength
\* The numbers given to from_bytes: 0, the powers of two, the numbers with
\* two one bits, and some with three.
Numbers ==
    {{}} \cup {{k} : k \in U64Positions}
    \cup {{j, k} : j, k \in U64Positions}
    \cup {{0, 14, k} : k \in U64Positions}

\* The values of `layers: u8`.
Layers == 0..255

InitLength ==
    /\ EngineIdle
    /\ UnitsIdle
    /\ MetaIdle
    /\ MainIdle
    /\ SeekIdle
    /\ PadIdle
    /\ \/ \E n \in Numbers : plen = LengthCall("n", n, None, {}, FALSE, None)
       \/ \E p \in Layers : plen = LengthCall("p", {}, p, {}, FALSE, None)

\* PieceLength::from_bytes(n)
FromBytes ==
    /\ plen.op = "n"
    /\ plen' = [plen EXCEPT !.op = "from_bytes", !.p = from_bytes(plen.n)]
    /\ UNCHANGED <<engineVars, unitVars, metaVars, mainVars,
                   seekVars, padVars>>

\* bytes() of the PieceLength that from_bytes returned
BytesOfFromBytes ==
    /\ plen.op = "from_bytes"
    /\ plen.p /= None
    /\ \E checked \in BOOLEAN :
          LET b == bytes_u64(plen.p, checked)
          IN  plen' = [plen EXCEPT !.op = "bytes", !.bits = b.bits,
                                   !.panic = b.panic]
    /\ UNCHANGED <<engineVars, unitVars, metaVars, mainVars,
                   seekVars, padVars>>

\* p.bytes() of a PieceLength p
Bytes ==
    /\ plen.op = "p"
    /\ \E checked \in BOOLEAN :
          LET b == bytes_u64(plen.p, checked)
          IN  plen' = [plen EXCEPT !.op = "p_bytes", !.bits = b.bits,
                                   !.panic = b.panic]
    /\ UNCHANGED <<engineVars, unitVars, metaVars, mainVars,
                   seekVars, padVars>>

\* PieceLength::from_bytes(p.bytes())
FromBytesOfBytes ==
    /\ plen.op = "p_bytes"
    /\ ~plen.panic
    /\ plen' = [plen EXCEPT !.op = "p_round", !.back = from_bytes(plen.bits)]
    /\ UNCHANGED <<engineVars, unitVars, metaVars, mainVars,
                   seekVars, padVars>>

NextLength ==
    \/ FromBytes
    \/ BytesOfFromBytes
    \/ Bytes
    \/ FromBytesOfBytes

SpecLength == InitLength /\ [][NextLength]_vars

\* ---------------------------------------------- what the claims refer to
\* The tree the BitTorrent v2 scheme defines, written without a stack: the
\* data cut into blocks, each block's SHA256, a list padded to a length, and
\* the root of a complete binary tree over a list of 2^k leaves.
NumBlocks(data) == (Len(data) + BLOCK_SIZE - 1) \div BLOCK_SIZE
BlockDigests(data) ==
    [i \in 1..NumBlocks(data) |->
        into_digest(SubSeq(data, (i - 1) * BLOCK_SIZE + 1,
                           Min(i * BLOCK_SIZE, Len(data))))]
PadTo(ds, n, pad) == [i \in 1..n |-> IF i <= Len(ds) THEN ds[i] ELSE pad]
RECURSIVE TreeRoot(_)
TreeRoot(ls) ==
    IF Len(ls) = 1 THEN ls[1]
    ELSE combine_digests(TreeRoot(SubSeq(ls, 1, Len(ls) \div 2)),
                         TreeRoot(SubSeq(ls, Len(ls) \div 2 + 1, Len(ls))))
\* The least power of two that is at least n (1 for n = 0).
RECURSIVE CeilPow2(_)
CeilPow2(n) == IF n <= 1 THEN 1 ELSE 2 * CeilPow2((n + 1) \div 2)
\* The root of a list padded with pad up to the next power of two.
PaddedRoot(ds, pad) == TreeRoot(PadTo(ds, CeilPow2(Len(ds)), pad))
\* Piece i (from 0) of the first n bytes of data, for pieces of l bytes.
PieceOf(data, n, i, l) == SubSeq(data, i * l + 1, Min((i + 1) * l, n))
\* The digest of a piece: its block digests padded with zero digests to
\* exactly 2^layers leaves.
PieceRoot(layers, data) ==
    TreeRoot(PadTo(BlockDigests(data), Pow2(layers), ZeroDigest))
\* The digest of a piece of zero block digests only.
ZeroPieceRoot(layers) == TreeRoot(PadTo(<<>>, Pow2(layers), ZeroDigest))
\* ceil(n / l)
CeilDiv(n, l) == (n + l - 1) \div l
\* The list of the digests of the pieces of the first n bytes of data.
PieceRoots(layers, data, n) ==
    [i \in 1..CeilDiv(n, bytes(layers)) |->
        PieceRoot(layers, PieceOf(data, n, i - 1, bytes(layers)))]
\* A call returned without an I/O error having been injected.
NoIoError == result.kind /= "Other"
\* What torrent2::checksum_file returns for the source when every read
\* succeeds.
Sequential == checksum_file(piece_length, Reader(src, None))

\* C1: checksum_file_multithreaded, given the true length of the source and
\* no failing seek or read, returns Ok with exactly the File and the
\* piece-digest list that torrent2::checksum_file returns for the same bytes.
C1_ParallelEqualsSequential ==
    (pc = "mt_done" /\ file_length = Len(src) /\ NoIoError)
        => (result.ok /\ result = Sequential)

\* C1 witness: a parallel run over three or more pieces, the last one
\* partial, has returned Ok for the true length.
C1_Witness ==
    /\ pc = "mt_done" /\ file_length = Len(src) /\ result.ok
    /\ num_pieces >= 3 /\ file_length % bytes(piece_length) /= 0
    /\ result = Sequential

\* C2: in the multi-piece path, whatever the splitting into parts, the batch
\* size and the order of the workers' steps, an Ok result lists at position i
\* the digest of piece i of the source, and its root is the root over that
\* list.
C2_ScheduleIndependent ==
    (pc = "mt_done" /\ num_pieces > 1 /\ result.ok)
        => /\ result.pieces_layer = PieceRoots(piece_length, src, file_length)
           /\ result.file.pieces_root =
                PaddedRoot(PieceRoots(piece_length, src, file_length),
                           ZeroPieceRoot(piece_length))

\* C2 witness: an Ok result of a run that was split into three parts, over
\* pieces that all differ.
C2_Witness ==
    /\ pc = "mt_done" /\ result.ok /\ Cardinality(jobs) >= 3
    /\ \A i, k \in 1..Len(result.pieces_layer) :
          i /= k => result.pieces_layer[i] /= result.pieces_layer[k]

\* C3 (as claimed): for a source of exactly one piece the engines return the
\* piece's digest as pieces_root and an empty piece-digest list.
C3_OnePieceEmptyList ==
    (/\ pc \in {"seq_done", "mt_done"}
     /\ result.ok
     /\ Len(src) = bytes(piece_length)
     /\ pc = "mt_done" => file_length = Len(src))
        => /\ result.file.pieces_root = PieceRoot(piece_length, src)
           /\ result.pieces_layer = <<>>

\* C4: a zero-length source gives File {length: 0, pieces_root: zero} and an
\* empty list, for every piece length, from torrent2::checksum_file, from
\* checksum_file_multithreaded with declared length 0 and from
\* FileV2Hasher::finish with no update before it.
C4_EmptyInput ==
    (/\ Len(src) = 0
     /\ NoIoError
     /\ \/ pc \in {"seq_done", "stream_done"}
        \/ pc = "mt_done" /\ file_length = 0)
        => result = Ok(File(0, ZeroDigest), <<>>)

\* C4 witness: the parallel engine has returned for an empty source with a
\* piece length of more than one block.
C4_Witness ==
    /\ pc = "mt_done" /\ Len(src) = 0 /\ file_length = 0 /\ piece_length > 0
    /\ result.ok

\* C5: for a source of 0 < n < piece bytes, checksum_file returns length n,
\* an empty list and the root over the block digests padded with zero
\* digests to the next power of two only; for n of at most a block that root
\* is SHA256 of the source.
C5_SubPiece ==
    (/\ pc = "seq_done" /\ NoIoError
     /\ 0 < Len(src) /\ Len(src) < bytes(piece_length))
        => /\ result = Ok(File(Len(src), PaddedRoot(BlockDigests(src), ZeroDigest)),
                          <<>>)
           /\ Len(src) <= BLOCK_SIZE => result.file.pieces_root = into_digest(src)

\* C5 witness: a source of two blocks or more, the last one partial, has
\* been hashed as a file shorter than its piece, and its tree has fewer
\* leaves than a piece has blocks.
C5_Witness ==
    /\ pc = "seq_done" /\ result.ok
    /\ NumBlocks(src) >= 2 /\ Len(src) % BLOCK_SIZE /= 0
    /\ CeilPow2(NumBlocks(src)) < Pow2(piece_length)
    /\ result.pieces_layer = <<>>

\* C6: for a source of n > piece bytes, checksum_file returns length n and
\* exactly ceil(n / piece bytes) digests in file order, entry i being the
\* root over piece i's block digests padded with zero digests to 2^layers
\* leaves; a source that ends on a piece boundary adds no entry for the
\* empty read that follows its last piece.
C6_MultiPiece ==
    (pc = "seq_done" /\ NoIoError /\ Len(src) > bytes(piece_length))
        => /\ result.ok
           /\ result.file.length = Len(src)
           /\ Len(result.pieces_layer) = CeilDiv(Len(src), bytes(piece_length))
           /\ result.pieces_layer = PieceRoots(piece_length, src, Len(src))

\* C6 witness: a source of three pieces of two blocks or more, the last
\* piece ending in a partial block, has been hashed.
C6_Witness ==
    /\ pc = "seq_done" /\ result.ok
    /\ piece_length >= 1
    /\ Len(result.pieces_layer) = 3
    /\ Len(src) % BLOCK_SIZE /= 0

ExpectedBytes(idx, fl, l) == Min(l, fl - idx * l)
\* The index of a part's last closure call.
LastIdx(j) == IF j.out = "Ok" THEN j.next - 1 ELSE j.next
\* A part's last closure call read a number of bytes that differs from what
\* its index is to hold.
Mismatch(j) ==
    /\ j.n /= None
    /\ j.n /= ExpectedBytes(LastIdx(j), file_length, bytes(piece_length))

\* C10 (as claimed): a worker that read fewer or more bytes than expected
\* makes the whole call return an UnexpectedEof error.
C10_MismatchGivesUnexpectedEof ==
    (pc = "mt_done" /\ \E j \in jobs : Mismatch(j))
        => result = Err("UnexpectedEof")

\* C10 (amended): a worker that read fewer or more bytes than expected
\* returns UnexpectedEof and ends its part, and the whole call returns an
\* error: UnexpectedEof, or the I/O error of another worker's failed seek or
\* read when the collector kept that one first.
C10_MismatchGivesError ==
    /\ \A j \in jobs :
          Mismatch(j) => /\ j.out = "UnexpectedEof"
                         /\ j.st = "done"
                         /\ saved_error /= "none"
    /\ (pc = "mt_done" /\ \E j \in jobs : Mismatch(j))
          => /\ ~result.ok
             /\ \/ result = Err("UnexpectedEof")
                \/ /\ result = Err("Other")
                   /\ \E j \in jobs : j.out = "Other"

\* C10 witness: the call has returned UnexpectedEof after a worker read more
\* bytes than its final, partial piece is declared to hold.
C10_Witness ==
    /\ pc = "mt_done" /\ result = Err("UnexpectedEof")
    /\ \E j \in jobs :
          /\ Mismatch(j)
          /\ j.n > ExpectedBytes(LastIdx(j), file_length, bytes(piece_length))

\* C8: root_hash(layer, digests) is the root of the complete binary tree,
\* node = SHA256(left || right) with the leaves in the order given, over the
\* digests padded to the next power-of-two count with the root of an
\* all-zero tree of that layer. With layer 0 the empty list gives the zero
\* digest, one digest comes back unchanged, [a, b] gives SHA256(a || b), and
\* five digests are padded with three zero digests.
C8_RootHashIsPaddedTree ==
    last.op = "root_hash" =>
        LET ds == rh.digests
            Z == ZeroDigest
        IN  /\ rh.out = PaddedRoot(ds, ZeroPieceRoot(rh.layer))
            /\ Len(ds) = 0 /\ rh.layer = 0 => rh.out = Z
            /\ Len(ds) = 1 => rh.out = ds[1]
            /\ Len(ds) = 2 => rh.out = combine_digests(ds[1], ds[2])
            /\ Len(ds) = 5 /\ rh.layer = 0 =>
                  rh.out = combine_digests(
                      combine_digests(combine_digests(ds[1], ds[2]),
                                      combine_digests(ds[3], ds[4])),
                      combine_digests(combine_digests(ds[5], Z),
                                      combine_digests(Z, Z)))

\* root_hash was given five digests, a zero digest between two others, at a
\* layer above zero.
C8_Witness ==
    /\ last.op = "root_hash"
    /\ Len(rh.digests) = 5
    /\ rh.layer > 0
    /\ rh.digests[1] = into_digest(<<1>>)
    /\ rh.digests[2] = ZeroDigest
    /\ rh.digests[5] = into_digest(<<1>>)

\* C9: after finish_tree or finish_layer of a merkle Hasher (a digest or
\* None), after finish or finish_first_piece of a PieceV2Hasher and after
\* finish of a sha256 Hasher, the object is in the state of a freshly
\* constructed one; every operation being a function of the object's state
\* and its inputs, it then answers all later inputs as a fresh one does.
C9_FinishLeavesFresh ==
    /\ last.op \in {"finish_tree", "finish_layer"} => mh = NewMerkle
    /\ last.op \in {"finish", "finish_first_piece"} =>
          ph = NewPieceHasher(ph.piece_length)
    /\ last.op = "sha_finish" => sh = NewSha

\* finish_layer returned None on a hasher that held more than the layer.
C9_Witness ==
    /\ last.op = "finish_layer"
    /\ ~last.some
    /\ last.used

\* An index lies in a part's range.
InPart(i, j) == j.lo <= i /\ i < j.hi
\* The closure was called for an index: its part went past it, or ended on it
\* with an error.
Called(i) ==
    \E j \in jobs : InPart(i, j) /\ (i < j.next \/ (i = j.next /\ j.out /= "Ok" /\ j.out /= "none"))
\* The errors the workers' closures returned.
WorkerErrors == {j.out : j \in jobs} \ {"Ok", "none"}

\* What holds in every state of a multi-piece run.
C11_State ==
    (pc \in {"par", "mt_done"} /\ num_pieces > 1) =>
        /\ \A i \in 0..(num_pieces - 1) :
              /\ Cardinality({j \in jobs : InPart(i, j)}) = 1
              /\ slots[i] /= NoDigest <=> \E j \in jobs : InPart(i, j) /\ i < j.next
        /\ (pc = "mt_done" /\ result.ok) =>
              /\ WorkerErrors = {}
              /\ \A i \in 0..(num_pieces - 1) : slots[i] /= NoDigest
              /\ result.pieces_layer = [i \in 1..num_pieces |-> slots[i - 1]]
              /\ result.file.pieces_root =
                    PaddedRoot(result.pieces_layer, ZeroPieceRoot(piece_length))
        /\ (pc = "mt_done" /\ WorkerErrors /= {}) =>
              /\ ~result.ok
              /\ \E kind \in WorkerErrors : result = Err(kind)
              /\ result.pieces_layer = <<>>

\* What holds of every step of a multi-piece run: a digest once produced
\* stays, an index the closure was called for is not given to it again, and
\* a part that has ended stays ended.
C11_Step ==
    (pc = "par" /\ pc' \in {"par", "mt_done"}) =>
        /\ \A i \in 0..(num_pieces - 1) :
              /\ slots[i] /= NoDigest => slots'[i] = slots[i]
              /\ Called(i) =>
                    \A j \in jobs' \ jobs : j.out /= "none" => LastIdx(j) /= i
        /\ \A j \in jobs : j.st = "done" => j \in jobs'

\* C11: in checksum_file_multithreaded the file root is computed only after
\* every piece index has produced its digest; when a worker returned an I/O
\* error the call returns one of the workers' errors, no File and no digest
\* list; and the closure is never called a second time for an index.
C11_RootAfterAllNoRetry == [](C11_State) /\ [][C11_Step]_vars

\* C11 witness: the call returned a worker's I/O error although digests of
\* other pieces had been produced and a part had not ended.
C11_Witness ==
    /\ pc = "mt_done" /\ result = Err("Other") /\ num_pieces > 1
    /\ \E i \in 0..(num_pieces - 1) : slots[i] /= NoDigest
    /\ \E j \in jobs : j.st /= "done"

\* ------------------------------------ what the claims on torrents refer to
\* The last call of add_file, the calls that returned true, and the
\* components a path was joined from.
LastCall == calls[Len(calls)]
Added == SelectSeq(calls, LAMBDA c : c.ret)
ComponentsOf(path) == CHOOSE cs \in Components : Join(cs) = path
Prefixes(cs) == {SubSeq(cs, 1, k) : k \in 1..Len(cs)}
ProperPrefixes(cs) == {SubSeq(cs, 1, k) : k \in 1..(Len(cs) - 1)}
AllNodes == UNION {Prefixes(cs) : cs \in Components}

\* What a list of components names in a tree: a file, a directory, or nothing.
Missing == [kind |-> "none", file |-> DefaultFile, entries |-> NoEntries]
RECURSIVE Node(_, _)
Node(entries, cs) ==
    IF Head(cs) \notin DOMAIN entries THEN Missing
    ELSE IF Len(cs) = 1 THEN entries[Head(cs)]
    ELSE IF entries[Head(cs)].kind = "Directory"
         THEN Node(entries[Head(cs)].entries, Tail(cs))
         ELSE Missing

\* Byte order on strings, and the one ascending enumeration of a set of them.
LexLessRef(a, b) ==
    \E i \in 1..Len(b) :
        /\ \A k \in 1..(i - 1) : k <= Len(a) /\ a[k] = b[k]
        /\ i > Len(a) \/ a[i] < b[i]
Ascending(S) ==
    CHOOSE s \in [1..Cardinality(S) -> S] :
        \A i, j \in 1..Cardinality(S) : i < j => LexLessRef(s[i], s[j])

HasSub(s, t) == \E i \in 0..(Len(s) - Len(t)) : SubSeq(s, i + 1, i + Len(t)) = t
IsSuffix(t, s) == Len(t) <= Len(s) /\ SubSeq(s, Len(s) - Len(t) + 1, Len(s)) = t
RECURSIVE Flatten(_)
Flatten(ss) == IF Len(ss) = 0 THEN <<>> ELSE Head(ss) \o Flatten(Tail(ss))

\* The piece-layers pair of an encoded torrent: the lists that are not
\* empty, under their keys in ascending order.
PieceLayersRef(piece_layers) ==
    LET keys == Ascending({k \in DOMAIN piece_layers : Len(piece_layers[k]) > 0})
    IN  emit_bytes(Key_piece_layers) \o <<100>>
          \o Flatten([i \in 1..Len(keys) |->
                 emit_bytes(keys[i]) \o emit_bytes(Flatten(piece_layers[keys[i]]))])
          \o <<101>>

\* The encoding of a directory with its names in ascending order at every
\* level.
RECURSIVE DirectoryRef(_)
DirectoryRef(entries) ==
    LET keys == Ascending(DOMAIN entries)
    IN  <<100>>
          \o Flatten([i \in 1..Len(keys) |->
                 emit_bytes(keys[i]) \o
                 (IF entries[keys[i]].kind = "Directory"
                  THEN DirectoryRef(entries[keys[i]].entries)
                  ELSE file_to_bencode(entries[keys[i]].file).out)])
          \o <<101>>

\* The torrent built from Torrent::new by a list of calls, and whether each
\* call returned true.
RECURSIVE Build(_, _)
Build(t, cs) ==
    IF Len(cs) = 0 THEN [ok |-> TRUE, torrent |-> t]
    ELSE LET r == add_file(t, Head(cs).path, Head(cs).f, Head(cs).pieces_layer)
             b == Build(r.torrent, Tail(cs))
         IN  [ok |-> r.ret /\ b.ok, torrent |-> b.torrent]
Orders(cs) ==
    {[i \in 1..Len(cs) |-> cs[p[i]]] :
        p \in {q \in [1..Len(cs) -> 1..Len(cs)] :
                 \A i, j \in 1..Len(cs) : i /= j => q[i] /= q[j]}}

\* C12: add_file returns false exactly when the path names an existing file
\* or directory or a proper prefix of it names an existing file; otherwise
\* it returns true, the file is at the path, every proper prefix of the path
\* is a directory, and what any other path names is as before.
C12_AddFileReturn ==
    Len(calls) > 0 =>
        LET c == LastCall
            cs == ComponentsOf(c.path)
            conflict ==
                \/ Node(prev.file_tree, cs).kind /= "none"
                \/ \E q \in ProperPrefixes(cs) : Node(prev.file_tree, q).kind = "File"
        IN  /\ c.ret = ~conflict
            /\ c.ret =>
                  /\ Node(torrent.file_tree, cs) = FileElement(c.f)
                  /\ \A q \in ProperPrefixes(cs) :
                        Node(torrent.file_tree, q).kind = "Directory"
                  /\ \A q \in AllNodes \ Prefixes(cs) :
                        Node(torrent.file_tree, q) = Node(prev.file_tree, q)

\* C12 witness: a file was added two directories down, one of which existed
\* and one of which did not.
C12_Witness ==
    /\ Len(calls) = 2 /\ LastCall.ret
    /\ Len(ComponentsOf(LastCall.path)) = 3
    /\ Node(prev.file_tree, << <<97>> >>).kind = "Directory"
    /\ Node(prev.file_tree, << <<97>>, <<98>> >>).kind = "none"

\* C13: when add_file returns false the torrent is as it was before the
\* call: file tree and piece layers.
C13_FailedAddChangesNothing ==
    (Len(calls) > 0 /\ ~LastCall.ret) => torrent = prev

\* C13 witness: add_file returned false for a path that runs two components
\* on through an existing file, and was given a list of piece digests.
C13_Witness ==
    /\ Len(calls) = 2 /\ ~LastCall.ret
    /\ Len(LastCall.pieces_layer) > 0
    /\ \E q \in ProperPrefixes(ComponentsOf(LastCall.path)) :
          /\ Node(prev.file_tree, q).kind = "File"
          /\ Len(ComponentsOf(LastCall.path)) >= Len(q) + 2

\* C14: piece_layers never holds an empty list after calls of add_file: a
\* call that returns true stores a non-empty list under the file's
\* pieces_root and stores nothing for an empty one; and the encoder leaves
\* out every piece_layers entry whose list is empty.
C14_NoEmptyListSerialized ==
    /\ \A k \in DOMAIN torrent.piece_layers : Len(torrent.piece_layers[k]) > 0
    /\ (Len(calls) > 0 /\ LastCall.ret) =>
          IF Len(LastCall.pieces_layer) > 0
          THEN /\ DOMAIN torrent.piece_layers =
                    (DOMAIN prev.piece_layers) \cup {LastCall.f.pieces_root}
               /\ torrent.piece_layers[LastCall.f.pieces_root] = LastCall.pieces_layer
               /\ \A k \in (DOMAIN prev.piece_layers) \ {LastCall.f.pieces_root} :
                     torrent.piece_layers[k] = prev.piece_layers[k]
          ELSE torrent.piece_layers = prev.piece_layers
    /\ (enc.what \in {"torrent", "literal"} /\ enc.out.ok) =>
          IsSuffix(PieceLayersRef(enc.torrent.piece_layers) \o <<101>>, enc.out.out)

\* C14 witness: a torrent whose piece_layers holds an empty list and a
\* non-empty one was encoded.
C14_Witness ==
    /\ enc.what = "literal" /\ enc.out.ok
    /\ \E k \in DOMAIN enc.torrent.piece_layers : Len(enc.torrent.piece_layers[k]) = 0
    /\ \E k \in DOMAIN enc.torrent.piece_layers : Len(enc.torrent.piece_layers[k]) > 0

\* C15: the encoding of a File holds the key "pieces root" exactly when its
\* length is not 0; a file of length 0 encodes as d0:d6:lengthi0eee whatever
\* its pieces_root is. The same holds of a file inside a torrent.
C15_PiecesRootIffNonEmpty ==
    /\ enc.what = "file" =>
          /\ enc.out.ok
          /\ HasSub(enc.out.out, emit_bytes(Key_pieces_root)) <=> enc.file.length > 0
          /\ enc.file.length = 0 => enc.out.out = <<100, 48, 58, 100, 54, 58, 108, 101, 110, 103, 116, 104, 105, 48, 101, 101, 101>>
    /\ (enc.what = "literal" /\ enc.out.ok) =>
          (HasSub(enc.out.out, emit_bytes(Key_pieces_root))
             <=> enc.torrent.file_tree[<<97>>].file.length > 0)

\* C15 witness: a file of length 0 with a pieces_root that is not zero was
\* encoded.
C15_Witness ==
    /\ enc.what = "file"
    /\ enc.file.length = 0
    /\ enc.file.pieces_root /= ZeroDigest

\* The names and the piece-layer keys of an encoded torrent are in ascending
\* byte order at every level.
C16_Sorted ==
    (enc.what \in {"torrent", "literal"} /\ enc.out.ok) =>
        /\ HasSub(enc.out.out,
                  emit_bytes(Key_file_tree) \o DirectoryRef(enc.torrent.file_tree))
        /\ IsSuffix(PieceLayersRef(enc.torrent.piece_layers) \o <<101>>, enc.out.out)

\* The same calls in any other order build a torrent with the same encoding.
C16_AnyOrder ==
    \A cs \in Orders(Added) :
        /\ Build(NewTorrent(<<>>, <<>>, 0), cs).ok
        /\ to_bencode(Build(NewTorrent(<<>>, <<>>, 0), cs).torrent) = enc.out

\* Files added under one pieces_root carry the same piece-digest list.
C16_OneListPerRoot ==
    \A i, j \in 1..Len(Added) :
        (/\ Added[i].f.pieces_root = Added[j].f.pieces_root
         /\ Len(Added[i].pieces_layer) > 0
         /\ Len(Added[j].pieces_layer) > 0)
            => Added[i].pieces_layer = Added[j].pieces_layer

C17_DepthLimit ==
    enc.what = "torrent" =>
        LET segments == {Len(ComponentsOf(Added[i].path)) : i \in 1..Len(Added)}
        IN  /\ (\A n \in segments : n <= MAX_FILE_PATH_DEPTH) => enc.out.ok
            /\ (\E n \in segments : n >= MAX_FILE_PATH_DEPTH + 1) =>
                  /\ ~enc.out.ok
                  /\ enc.out.err = "NestingTooDeep"
                  /\ enc.out.out = <<>>

\* C17 witness: a torrent with a file MAX_FILE_PATH_DEPTH components deep
\* was encoded.
C17_Witness ==
    /\ enc.what = "torrent" /\ enc.out.ok
    /\ \E i \in 1..Len(Added) :
          Len(ComponentsOf(Added[i].path)) = MAX_FILE_PATH_DEPTH

\* A torrent with a file one component deeper was refused.
C17_TooDeepReached ==
    /\ enc.what = "torrent" /\ ~enc.out.ok
    /\ Len(Added) = 2

\* ------------------------------------------------------------- C18, C19
\* The operations of a run so far that touch a file or hash its bytes.
Touched == {i \in 1..Len(io) : io[i].op \in {"stat", "walk", "open", "read", "hashed"}}

\* C18 (as claimed): a run whose piece-length exponent lies outside 0..26
\* is rejected with a validation error before any file is stat'ed, opened or
\* read and before anything is hashed.
C18_OutOfRangeRejectedBeforeIo ==
    (main_pc /= "off" /\ cli.piece_length \notin 0..26) =>
        /\ Touched = {}
        /\ outcome \in {"running", "usage"}
        /\ stdout = <<>>

\* A run with an exponent outside 0..26 that hashed a file and wrote a
\* torrent.
C18_RunCompletes ==
    /\ cli.piece_length \notin 0..26
    /\ outcome = "ok"
    /\ stdout /= <<>>
    /\ \E i \in 1..Len(io) : io[i].op = "hashed"

\* An exponent that does not fit a u8 ended the run before anything else.
C18_UsageReached ==
    /\ cli.piece_length = 256
    /\ outcome = "usage"
    /\ io = <<>>

\* The path names a file in the tree.
RECURSIVE HasFile(_, _)
HasFile(entries, cs) ==
    /\ Head(cs) \in DOMAIN entries
    /\ LET e == entries[Head(cs)]
       IN  IF Len(cs) = 1 THEN e.kind = "File"
           ELSE e.kind = "Directory" /\ HasFile(e.entries, Tail(cs))

IsPrefixOf(a, b) == Len(a) <= Len(b) /\ SubSeq(b, 1, Len(a)) = a

\* Every file main set out to add was opened, hashed, and is in the torrent.
AllAdded ==
    \A i \in 1..Len(files) :
        /\ HasFile(mtorrent.file_tree, split(files[i][1]))
        /\ \E k \in 1..Len(io) : io[k] = Op("hashed", files[i][1])
        /\ \E k \in 1..Len(io) : io[k] = Op("open", files[i][1])

C19_State ==
    /\ stdout /= <<>> =>
          /\ main_pc = "done"
          /\ Len(todo) = 0
          /\ AllAdded
          /\ outcome \in {"ok", "panic"}
          /\ to_bencode(mtorrent).ok
          /\ IsPrefixOf(stdout, to_bencode(mtorrent).out)
    /\ outcome = "ok" => stdout = to_bencode(mtorrent).out
    /\ outcome \in {"open", "read", "conflict"} =>
          /\ main_pc = "done"
          /\ stdout = <<>>
          /\ Len(todo) > 0

C19_Step ==
    /\ stdout' /= stdout =>
          /\ main_pc = "add"
          /\ Len(todo) = 0
          /\ AllAdded
          /\ outcome = "running"
    /\ (main_pc = "add" /\ Len(todo) > 0 /\ main_pc' /= "opened") =>
          main_pc' = "done" /\ outcome' = "open" /\ stdout' = <<>>
    /\ (main_pc = "opened" /\ ~hashed'.ok) =>
          main_pc' = "done" /\ outcome' = "read" /\ stdout' = <<>>
    /\ (main_pc = "hashed"
          /\ ~add_file(mtorrent, Head(todo)[1], hashed.file, hashed.pieces_layer).ret) =>
          main_pc' = "done" /\ outcome' = "conflict" /\ stdout' = <<>>

\* C19: main writes to standard output only once every file was hashed and
\* added, and what it writes is the encoded torrent; a failure to open or to
\* read a file, or a conflicting path, ends the run with an error and with
\* nothing written.
C19_WriteOnlyAfterAllAdded == [](C19_State) /\ [][C19_Step]_vars

\* C19 witness: a run over two files, one of them with a piece layer, wrote
\* the torrent.
C19_Witness ==
    /\ outcome = "ok"
    /\ Len(files) = 2
    /\ AllAdded
    /\ DOMAIN mtorrent.piece_layers /= {}
    /\ stdout = to_bencode(mtorrent).out
    /\ Len(stdout) > 0

\* Runs that ended at a conflicting path, at a failed open and at a failed
\* read, each after one file was added.
C19_ConflictReached ==
    outcome = "conflict" /\ Len(files) = 2 /\ Len(todo) = 1 /\ stdout = <<>>
C19_OpenFailedReached ==
    outcome = "open" /\ Len(files) = 2 /\ Len(todo) = 1 /\ stdout = <<>>
C19_ReadFailedReached ==
    outcome = "read" /\ Len(files) = 2 /\ Len(todo) = 1 /\ stdout = <<>>

\* ------------------------------------------------------------------ C20
\* n is a power of two that is at least 2^14.
IsPieceSize(n) == \E k \in 14..63 : n = {k}

C20_NoneReached ==
    plen.op = "from_bytes" /\ plen.p = None /\ plen.n \in {{}, {13}, {14, 15}}
C20_RoundTripReached ==
    plen.op = "p_round" /\ plen.p = 49 /\ plen.back = 49 /\ plen.bits = {63}

\* ------------------------------------------------------------------ C21
\* C21: a File returned by torrent2::checksum_file or by
\* checksum_file_multithreaded has the all-zero digest as its pieces_root
\* exactly when its length is 0.
C21_ZeroRootIffEmpty ==
    (pc \in {"seq_done", "mt_done"} /\ result.ok) =>
        ((result.file.pieces_root = ZeroDigest) <=> (result.file.length = 0))

\* C21 witness: the parallel engine, called over a source that holds no
\* bytes, returned a File of length 0 with the all-zero root.
C21_Witness ==
    /\ pc = "mt_done"
    /\ result.ok
    /\ Len(src) = 0
    /\ result.file.length = 0
    /\ result.file.pieces_root = ZeroDigest

\* Both engines returned a root other than the all-zero digest for a source
\* of several pieces of zero bytes.
C21_ZeroBytesReached ==
    /\ pc \in {"seq_done", "mt_done"}
    /\ result.ok
    /\ Len(src) > bytes(piece_length)
    /\ \A i \in 1..Len(src) : src[i] = 0
    /\ result.file.pieces_root /= ZeroDigest

\* ------------------------------------------------------------------ C22
\* The layers of a stack fall strictly from the oldest entry to the newest.
StrictlyDecreasing(s) == \A i \in 1..(Len(s) - 1) : s[i].layer > s[i + 1].layer

\* C22: whatever add_block, finish_tree, finish_layer and reset calls were
\* made, the stack of a merkle Hasher (the merkle::Hasher itself, the one in
\* a PieceV2Hasher, and the MerkleHasher in a FileV2Hasher) never holds two
\* entries of one layer once add_block has returned: the layers fall
\* strictly from the oldest entry to the newest.
C22_StackLayersDistinct ==
    /\ StrictlyDecreasing(mh)
    /\ StrictlyDecreasing(ph.merkle)
    /\ StrictlyDecreasing(fh.piece_merkle)
    /\ \A i, j \in 1..Len(mh) : i /= j => mh[i].layer /= mh[j].layer

\* C22 witness: add_block found entries of layers 1 and 0 and left the one
\* entry of layer 2 that the two combinations give.
C22_Witness ==
    /\ last.op = "add_block"
    /\ Len(call.stack) = 2
    /\ call.stack[1].layer = 1
    /\ call.stack[2].layer = 0
    /\ Len(mh) = 1
    /\ mh[1].layer = 2

\* ------------------------------------------------------------------ C23
\* The test finish_layer makes, on one entry e of a stack of `len` entries.
TooMany(e, len, layer) == e.layer > layer \/ (e.layer = layer /\ len > 1)

\* C23, as stated: finish_layer(pad, target_layer) returns no result exactly
\* when the most recently pushed entry's layer exceeds target_layer, or
\* equals it while more than one entry remains. Refuted: the stack holds
\* entries of layers 2 and 0, target_layer is 1, and no result is returned.
C23_NoneIffNewestTooHigh ==
    last.op = "finish_layer" =>
        (~last.some <=>
            /\ Len(call.stack) > 0
            /\ TooMany(call.stack[Len(call.stack)], Len(call.stack), call.layer))

\* C23, amended: finish_layer(pad, target_layer) returns no result exactly
\* when the oldest entry of the stack (the one of the highest layer) has a
\* layer above target_layer, or equal to it while more than one entry
\* remains; in every other state, the empty stack included, it returns a
\* digest; either way the hasher is empty afterwards.
C23_NoneIffOldestTooHigh ==
    last.op = "finish_layer" =>
        /\ ~last.some <=>
              /\ Len(call.stack) > 0
              /\ TooMany(call.stack[1], Len(call.stack), call.layer)
        /\ is_empty(mh)

\* C23 witness: entries of layers 2 and 0, target layer 1, no result.
C23_Witness ==
    /\ last.op = "finish_layer" /\ ~last.some
    /\ Len(call.stack) = 2 /\ call.stack[1].layer = 2 /\ call.stack[2].layer = 0
    /\ call.layer = 1

\* C23: a digest is returned for one entry whose layer is the target layer.
C23_SomeAtTargetReached ==
    /\ last.op = "finish_layer" /\ last.some
    /\ Len(call.stack) = 1 /\ call.stack[1].layer = call.layer /\ call.layer = 1

\* ------------------------------------------------------------------ C24
\* C24: whenever finish_layer(pad, L) returns Some(d), at most 2^L leaves were
\* added since the last reset and d is the root of the complete tree over
\* exactly 2^L leaves: the leaves added, in order, followed by pad leaves (2^L
\* pad leaves when none was added).
C24_FinishLayerRoot ==
    (last.op = "finish_layer" /\ last.some) =>
        /\ Len(call.given) <= Pow2(call.layer)
        /\ last.digest = TreeRoot(PadTo(call.given, Pow2(call.layer), call.pad))

\* C24 witness: three leaves padded with a non-zero digest to the root of
\* layer 2.
C24_Witness ==
    /\ last.op = "finish_layer" /\ last.some
    /\ Len(call.given) = 3 /\ call.layer = 2 /\ call.pad /= ZeroDigest
    /\ call.given[1] /= call.given[2]

\* C24: no leaves added, the root of four pad leaves returned.
C24_AllPadReached ==
    /\ last.op = "finish_layer" /\ last.some
    /\ call.given = <<>> /\ call.layer = 2 /\ call.pad /= ZeroDigest
    /\ last.digest = TreeRoot(<<call.pad, call.pad, call.pad, call.pad>>)

\* ------------------------------------------------------------------ C25
\* C25: PieceV2Hasher::finish never panics in either engine: no call of
\* torrent2::checksum_file or checksum_file_multithreaded ends in the panic of
\* finish's unwrap, no worker's closure does, and what a worker's reader
\* delivered is at most piece_bytes bytes.
C25_FinishNeverPanics ==
    /\ result /= Panic
    /\ saved_error /= "panic"
    /\ \A j \in jobs :
          /\ j.out /= "panic"
          /\ j.n /= None => j.n <= bytes(piece_length)

\* C25 witness: a parallel worker has finished a full piece of 2^layers
\* blocks, for the largest piece length, and got its digest.
C25_Witness ==
    /\ piece_length = MaxLayers
    /\ \E j \in jobs :
          /\ j.out = "Ok" /\ j.n = bytes(piece_length)
          /\ slots[LastIdx(j)] /= NoDigest

\* C25: the sequential engine has finished two full pieces and a partial one.
C25_SequentialReached ==
    /\ pc = "seq_done" /\ result.ok /\ Len(result.pieces_layer) = 3
    /\ result.file.length % bytes(piece_length) /= 0

\* ------------------------------------------------------------------ C26
\* Where the reader of a part's last closure call started: the seeker's
\* position after the copy, less the bytes the copy delivered.
ReaderStart(j) == j.seeker.pos - j.n

\* C26, as stated: a worker's reader for piece i delivers bytes from offset
\* i * piece_bytes, at most piece_bytes of them, for the final piece at most
\* file_length mod piece_bytes when that is nonzero, and never bytes beyond
\* the declared file length. Refuted: the source holds more bytes than were
\* declared, and the final piece's reader delivers them.
C26_ReaderClippedToDeclared ==
    \A j \in jobs : j.n /= None =>
        LET l == bytes(piece_length)
            i == LastIdx(j)
        IN  /\ ReaderStart(j) = i * l
            /\ j.n <= l
            /\ (i = num_pieces - 1 /\ file_length % l /= 0) =>
                  j.n <= file_length % l
            /\ ReaderStart(j) + j.n <= file_length

\* C26, amended: a worker's reader for piece i delivers the source's bytes
\* from offset i * piece_bytes up to piece_bytes of them or the end of the
\* source, whichever comes first, for the final piece as for any other; when
\* that number is not what the declared length leaves for piece i, the
\* worker returns UnexpectedEof, so a piece whose digest is kept lies within
\* the declared length.
C26_ReaderLimitedToPiece ==
    \A j \in jobs : j.n /= None =>
        LET l == bytes(piece_length)
            i == LastIdx(j)
        IN  /\ ReaderStart(j) = i * l
            /\ j.n = Min(l, Max(0, Len(src) - i * l))
            /\ j.n /= expected_length(i, num_pieces, file_length, l) =>
                  j.out = "UnexpectedEof"
            /\ j.out = "Ok" => ReaderStart(j) + j.n <= file_length

\* C26 witness: the final piece's reader delivered more than the remainder
\* of the declared length, and the worker returned UnexpectedEof.
C26_Witness ==
    \E j \in jobs :
        /\ j.n /= None
        /\ LastIdx(j) = num_pieces - 1
        /\ file_length % bytes(piece_length) /= 0
        /\ j.n > file_length % bytes(piece_length)
        /\ ReaderStart(j) + j.n > file_length
        /\ j.out = "UnexpectedEof"

\* C26: a reader that continued where the part's previous reader ended (no
\* seek) started at its piece's offset.
C26_NoSeekReached ==
    \E j \in jobs :
        /\ j.out = "Ok" /\ LastIdx(j) > j.lo
        /\ ReaderStart(j) = LastIdx(j) * bytes(piece_length)
        /\ j.n = bytes(piece_length)

\* ------------------------------------------------------------------ C27
\* A new PieceV2Hasher, and a new FileV2Hasher, given the bytes in one call.
PieceAtOnce(layers, data) == update(NewPieceHasher(layers), data)
FileAtOnce(layers, data) == fv_update(NewFileHasher(layers), data)

\* C27: what PieceV2Hasher::finish and finish_first_piece return, and the
\* File and piece-digest list FileV2Hasher::finish returns, are what a new
\* hasher returns when given the concatenation of the bytes in a single
\* update, however the bytes were split over the update calls (empty slices
\* and slices that cross block boundaries included); a whole piece's digest
\* is also the root of the tree over its block digests.
C27_SplitIndependent ==
    /\ last.op = "finish" =>
          LET one == finish(PieceAtOnce(ph.piece_length, call.given))
          IN  /\ last.some = ~one.panic
              /\ last.digest = one.digest
              /\ last.some => last.digest = PieceRoot(ph.piece_length, call.given)
    /\ last.op = "finish_first_piece" =>
          last.digest =
              finish_first_piece(PieceAtOnce(ph.piece_length, call.given)).digest
    /\ last.op = "file_finish" =>
          LET one == fv_finish(FileAtOnce(fh.piece_length, call.given))
          IN  /\ call.file = one.file
              /\ call.pieces_layer = one.pieces_layer

\* C27 witness: a PieceV2Hasher was given one byte more than a block, the
\* last slice being a block's worth that crosses the block boundary, and
\* finished.
C27_Witness ==
    /\ last.op = "finish" /\ last.some
    /\ Len(call.given) = BLOCK_SIZE + 1 /\ Len(call.data) = BLOCK_SIZE
    /\ call.stack /= <<>> /\ ph.piece_length > 0

\* C27: a FileV2Hasher given more than one piece finished.
C27_FileReached ==
    /\ last.op = "file_finish"
    /\ Len(call.pieces_layer) = 3 /\ fh.piece_length = 1
    /\ call.file.length % BLOCK_SIZE = 1

\* ------------------------------------------------------------------ C28
\* C28: after any sequence of FileV2Hasher::update calls totalling n bytes
\* since the hasher was new, reset or finished, length is n, pieces_layer
\* holds floor(n / piece_bytes) digests, the digests of the completed pieces
\* in order, piece_merkle holds exactly the digests of the completed blocks
\* of the piece in progress, fewer than 2^layers of them, and the block in
\* progress holds the remaining n mod BLOCK_SIZE bytes.
C28_FileHasherState ==
    unit = "file" =>
        LET l == bytes(fh.piece_length)
            n == Len(hist)
            done == n \div l
            rest == SubSeq(hist, done * l + 1, n)
            blocks == Len(rest) \div BLOCK_SIZE
        IN  /\ fh.length = n
            /\ Len(fh.pieces_layer) = done
            /\ \A i \in 1..done :
                  fh.pieces_layer[i] =
                      PieceRoot(fh.piece_length, PieceOf(hist, n, i - 1, l))
            /\ LeafCount(fh.piece_merkle) = blocks
            /\ blocks < Pow2(fh.piece_length)
            /\ fh.piece_merkle =
                  MhAddAll(NewMerkle,
                           BlockDigests(SubSeq(rest, 1, blocks * BLOCK_SIZE)))
            /\ fh.block_cur = n % BLOCK_SIZE
            /\ fh.ctx = SubSeq(rest, blocks * BLOCK_SIZE + 1, Len(rest))

\* C28 witness: updates have given a FileV2Hasher two pieces, one block and
\* one byte more.
C28_Witness ==
    /\ unit = "file" /\ last.op = "file_update" /\ fh.piece_length = 1
    /\ Len(hist) = 2 * bytes(1) + BLOCK_SIZE + 1
    /\ Len(fh.pieces_layer) = 2 /\ Len(fh.piece_merkle) = 1 /\ fh.block_cur = 1

\* C28: an update that ends exactly at a piece boundary left piece_merkle
\* empty.
C28_BoundaryReached ==
    /\ unit = "file" /\ last.op = "file_update" /\ fh.piece_length = MaxLayers
    /\ Len(hist) = bytes(MaxLayers) /\ Len(call.data) > 0
    /\ fh.piece_merkle = <<>> /\ Len(fh.pieces_layer) = 1

\* ------------------------------------------------- the padding loops
\* SpecPad runs the loops of Hasher::finish_tree, Hasher::finish_layer and
\* MerkleHasher::finish one turn at a time, on a hasher that is given blocks
\* and finished again and again. `padding` holds where the call is ("idle",
\* in the "loop", or "done"), the call's arguments, the stack, the turns the
\* loop has taken, and what the call returned.
PadState(at, op, pad, layer, stack, turns, some, digest) ==
    [pc |-> at, op |-> op, pad |-> pad, layer |-> layer, stack |-> stack,
     turns |-> turns, some |-> some, digest |-> digest]

\* More turns than any loop of the model takes.
MaxTurns == Pow2(MaxLayers + 1) + 1

InitPad ==
    /\ padding = PadState("idle", "none", ZeroDigest, 0, NewMerkle, 0, FALSE,
                          ZeroDigest)
    /\ EngineIdle
    /\ UnitsIdle
    /\ MetaIdle
    /\ MainIdle
    /\ LengthIdle
    /\ SeekIdle

\* add_block on a hasher that is in no call.
PadAddBlock ==
    /\ padding.pc \in {"idle", "done"}
    /\ LeafCount(padding.stack) < MaxLeaves
    /\ \E d \in LeafPool :
          padding' = PadState("idle", "add_block", d, 0,
                              add_block(padding.stack, d), 0, FALSE, ZeroDigest)
    /\ UNCHANGED <<engineVars, unitVars, metaVars, mainVars, lengthVars, seekVars>>

\* A call of finish_tree(pad), of finish_layer(pad, layer) or of
\* MerkleHasher::finish() up to its loop; finish_layer may return None at
\* once, with the hasher reset.
PadCall ==
    /\ padding.pc \in {"idle", "done"}
    /\ \E op \in {"finish_tree", "finish_layer", "mh_finish"},
          pad \in LeafPool, layer \in 0..(MaxLayers + 1) :
          /\ op /= "finish_layer" => layer = 0
          /\ op = "mh_finish" => pad = ZeroDigest
          /\ LET s == padding.stack
             IN  IF /\ op = "finish_layer"
                    /\ Len(s) > 0
                    /\ (s[1].layer > layer \/ (s[1].layer = layer /\ Len(s) > 1))
                 THEN padding' = PadState("done", op, pad, layer, merkle_reset(s),
                                          0, FALSE, ZeroDigest)
                 ELSE padding' = PadState("loop", op, pad, layer, s, 0, FALSE,
                                          ZeroDigest)
    /\ UNCHANGED <<engineVars, unitVars, metaVars, mainVars, lengthVars, seekVars>>

\* The condition of the while loop of the call in progress.
LoopCond ==
    IF padding.op = "finish_layer"
    THEN current_layer(padding.stack) = None
            \/ current_layer(padding.stack) < padding.layer
    ELSE Len(padding.stack) /= 1

\* A variant of a turn that pushes the pad and combines nothing.
PadTurn_push ==
    /\ padding.pc = "loop"
    /\ LoopCond
    /\ padding.turns < MaxTurns
    /\ padding' = [padding EXCEPT
                     !.stack = Append(padding.stack, Entry(padding.pad)),
                     !.turns = padding.turns + 1]
    /\ UNCHANGED <<engineVars, unitVars, metaVars, mainVars, lengthVars, seekVars>>

\* One turn of the loop: add_block(pad).
PadTurn ==
    /\ padding.pc = "loop"
    /\ LoopCond
    /\ padding.turns < MaxTurns
    /\ padding' = [padding EXCEPT
                     !.stack = IF padding.op = "mh_finish"
                               THEN mh_add_block(padding.stack, padding.pad)
                               ELSE add_block(padding.stack, padding.pad),
                     !.turns = padding.turns + 1]
    /\ UNCHANGED <<engineVars, unitVars, metaVars, mainVars, lengthVars, seekVars>>

\* The loop has ended: the call returns stack[0].digest and resets.
PadReturn ==
    /\ padding.pc = "loop"
    /\ ~LoopCond
    /\ padding' = [padding EXCEPT
                     !.pc = "done", !.some = TRUE,
                     !.digest = padding.stack[1].digest,
                     !.stack = merkle_reset(padding.stack)]
    /\ UNCHANGED <<engineVars, unitVars, metaVars, mainVars, lengthVars, seekVars>>

NextPad ==
    \/ PadAddBlock
    \/ PadCall
    \/ PadTurn
    \/ PadReturn

SpecPad == InitPad /\ [][NextPad]_vars

\* A call that has begun keeps running: its thread takes the loop's next turn
\* and returns when the loop has ended. Whether and when the caller adds a
\* block or makes the next call is left open.
SpecPadFair == SpecPad /\ WF_vars(PadTurn) /\ WF_vars(PadReturn)

\* ------------------------------------------------------------------ C29
\* The turns a loop takes on a stack of n leaves: up to the next power of
\* two (one leaf at least) for finish_tree and MerkleHasher::finish, up to
\* 2^layer leaves for finish_layer.
TurnsNeeded(op, n, layer) ==
    IF op = "finish_layer" THEN Pow2(layer) - n
    ELSE IF n = 0 THEN 1 ELSE CeilPow2(n) - n

\* C29: finish_tree(pad), finish_layer(pad, L) and MerkleHasher::finish
\* terminate from every stack that add_block calls and earlier finishes can
\* leave, the empty stack included: the loop never takes more turns than
\* the leaves missing to a full tree, and every call that entered its loop
\* returns, with a single entry (finish_tree) or a single entry of layer L
\* (finish_layer) as the stack it read the digest from.
C29_PaddingTerminates ==
    /\ [](padding.pc = "loop" =>
             /\ LeafCount(padding.stack) - padding.turns >= 0
             /\ padding.turns <=
                  TurnsNeeded(padding.op,
                              LeafCount(padding.stack) - padding.turns,
                              padding.layer)
             /\ padding.turns < MaxTurns)
    /\ (padding.pc = "loop") ~> (padding.pc = "done" /\ is_empty(padding.stack))

\* C29 witness: finish_layer(pad, 2) on a stack of one leaf has returned
\* after three turns.
C29_Witness ==
    /\ padding.pc = "done" /\ padding.op = "finish_layer" /\ padding.some
    /\ padding.layer = 2 /\ padding.turns = 3

\* C29: finish_tree on the empty stack has returned after one turn.
C29_EmptyTreeReached ==
    /\ padding.pc = "done" /\ padding.op = "finish_tree" /\ padding.some
    /\ padding.turns = 1 /\ padding.digest = padding.pad
    /\ padding.pad /= ZeroDigest

\* C29: finish_layer has returned None without a turn.
C29_RejectedReached ==
    /\ padding.pc = "done" /\ padding.op = "finish_layer" /\ ~padding.some
    /\ padding.turns = 0

\* ------------------------------------------------- a PiecesSeeker in use
\* SpecSeeker drives PiecesSeekers over one source through piece(n), the
\* reads of the PieceReader, its drop, and clone. `seeking` holds the
\* source's bytes, the piece length in bytes, whether the last call returned
\* Ok or Err, and the seekers: the first is
\* PiecesSeeker::new over the source, the others are clones. A seeker is its
\* current_piece, the read position of its handle of the source, the
\* PieceReader borrowed from it if any (piece, remaining, and the bytes it
\* has delivered), and whether it is a clone taken from a seeker whose
\* current_piece was Some.
MaxClones == 1       \* clones taken of the first seeker and of its clones

SeekerState(current_piece, pos, reading, piece, remaining, data, late) ==
    [current_piece |-> current_piece, pos |-> pos, reading |-> reading,
     piece |-> piece, remaining |-> remaining, data |-> data, late |-> late]

\* PiecesSeeker::new
PiecesSeeker_new == SeekerState(None, 0, FALSE, 0, 0, <<>>, FALSE)

InitSeeker ==
    /\ \E layers \in 0..1, n \in 0..MaxBlocks :
          seeking = [src |-> Chunk(0, n), l |-> bytes(layers),
                     seekers |-> <<PiecesSeeker_new>>, ret |-> "none"]
    /\ EngineIdle
    /\ UnitsIdle
    /\ MetaIdle
    /\ MainIdle
    /\ LengthIdle
    /\ PadIdle

\* PiecesSeeker::piece(n): the seek is made unless current_piece is Some(n),
\* and the reader is handed out with a whole piece remaining.
SeekerPiece(i) ==
    /\ ~seeking.seekers[i].reading
    /\ \E n \in 0..(MaxPieces - 1) :
          LET s == seeking.seekers[i]
              at == IF s.current_piece /= n THEN n * seeking.l ELSE s.pos
          IN  seeking' = [seeking EXCEPT
                            !.seekers[i] = SeekerState(None, at, TRUE, n,
                                                       seeking.l, <<>>, s.late),
                            !.ret = "Ok"]
    /\ UNCHANGED <<engineVars, unitVars, metaVars, mainVars, lengthVars, padVars>>

\* PiecesSeeker::piece(n) when the seek fails: the error is returned before
\* current_piece is touched, and the handle stays where it was.
SeekerPieceError(i) ==
    /\ ~seeking.seekers[i].reading
    /\ \E n \in 0..(MaxPieces - 1) : seeking.seekers[i].current_piece /= n
    /\ seeking' = [seeking EXCEPT !.ret = "Err"]
    /\ UNCHANGED <<engineVars, unitVars, metaVars, mainVars, lengthVars, padVars>>

\* PieceReader::read into a buffer of k bytes: Ok(0) when nothing remains,
\* else what the source gives for at most min(k, remaining) bytes, a short
\* read included.
SeekerRead(i) ==
    /\ seeking.seekers[i].reading
    /\ \E k \in 1..seeking.l :
          LET s == seeking.seekers[i]
              max_read == Min(k, s.remaining)
              avail == Min(max_read, Max(0, Len(seeking.src) - s.pos))
          IN  \E m \in (IF avail = 0 THEN {0} ELSE 1..avail) :
                 seeking' = [seeking EXCEPT
                               !.seekers[i] =
                                   [s EXCEPT !.pos = s.pos + m,
                                             !.remaining = s.remaining - m,
                                             !.data = s.data \o
                                                 SubSeq(seeking.src, s.pos + 1,
                                                        s.pos + m)],
                               !.ret = "Ok"]
    /\ UNCHANGED <<engineVars, unitVars, metaVars, mainVars, lengthVars, padVars>>

\* PieceReader::drop
SeekerDrop(i) ==
    /\ seeking.seekers[i].reading
    /\ LET s == seeking.seekers[i]
       IN  seeking' = [seeking EXCEPT
                         !.seekers[i] =
                             [s EXCEPT !.reading = FALSE,
                                       !.current_piece =
                                           IF s.remaining = 0 THEN s.piece + 1
                                           ELSE s.current_piece],
                         !.ret = "none"]
    /\ UNCHANGED <<engineVars, unitVars, metaVars, mainVars, lengthVars, padVars>>

\* PiecesSeeker::clone (derived): piece_length and current_piece are copied,
\* and ClonableFile::clone gives a handle with no file open, which opens at
\* offset 0. No reader borrows the seeker while it is cloned.
SeekerClone(i) ==
    /\ ~seeking.seekers[i].reading
    /\ Len(seeking.seekers) <= MaxClones
    /\ LET s == seeking.seekers[i]
       IN  seeking' = [seeking EXCEPT
                         !.seekers =
                             Append(seeking.seekers,
                                    SeekerState(s.current_piece, 0, FALSE, 0, 0,
                                                <<>>,
                                                s.late \/ s.current_piece /= None)),
                         !.ret = "none"]
    /\ UNCHANGED <<engineVars, unitVars, metaVars, mainVars, lengthVars, padVars>>

NextSeeker ==
    \/ \E i \in 1..Len(seeking.seekers) : SeekerPiece(i)
    \/ \E i \in 1..Len(seeking.seekers) : SeekerPieceError(i)
    \/ \E i \in 1..Len(seeking.seekers) : SeekerRead(i)
    \/ \E i \in 1..Len(seeking.seekers) : SeekerDrop(i)
    \/ \E i \in 1..Len(seeking.seekers) : SeekerClone(i)

SpecSeeker == InitSeeker /\ [][NextSeeker]_vars

\* ------------------------------------------------------------------ C30
\* What holds of one seeker when its elision is sound: with current_piece
\* Some(k) the handle is at k * piece_length, and a reader for piece n has
\* delivered bytes of piece n, from the piece's start on.
ElisionSound(s) ==
    /\ s.current_piece /= None => s.pos = s.current_piece * seeking.l
    /\ s.reading =>
          /\ s.pos = s.piece * seeking.l + Len(s.data)
          /\ s.data = SubSeq(seeking.src, s.piece * seeking.l + 1,
                             s.piece * seeking.l + Len(s.data))

\* C30: for any sequence of piece(n) calls, reads and reader drops on a
\* PiecesSeeker and for any clone of it taken at any point, whenever
\* current_piece is Some(k) the source's read position is k * piece_length,
\* and piece(n) delivers the bytes of piece n. Refuted: a clone taken when
\* current_piece is Some(1) carries Some(1) with a handle at offset 0, and
\* its piece(1) delivers the bytes of piece 0.
C30_ElisionSoundForAll ==
    \A i \in 1..Len(seeking.seekers) : ElisionSound(seeking.seekers[i])

\* C30, what does hold: the seeker made by PiecesSeeker::new, and every clone
\* taken while current_piece was None (as the clones of map_with are, taken
\* of a seeker no closure has used), keeps the elision sound.
C30_ElisionSoundUnlessLateClone ==
    \A i \in 1..Len(seeking.seekers) :
        ~seeking.seekers[i].late => ElisionSound(seeking.seekers[i])

\* C30: a clone's reader for piece 1 has delivered a whole piece of bytes
\* that are the bytes of piece 0.
C30_WrongPieceReached ==
    \E i \in 2..Len(seeking.seekers) :
        LET s == seeking.seekers[i]
        IN  /\ Len(seeking.src) >= 2 * seeking.l
            /\ s.reading /\ s.piece = 1 /\ s.remaining = 0
            /\ s.data = SubSeq(seeking.src, 1, seeking.l)
            /\ s.data /= SubSeq(seeking.src, seeking.l + 1, 2 * seeking.l)

\* C30: the first seeker has delivered piece 1 whole without a seek, after
\* piece 0.
C30_ElidedReached ==
    LET s == seeking.seekers[1]
    IN  /\ Len(seeking.seekers) = 1 /\ Len(seeking.src) >= 2 * seeking.l
        /\ s.current_piece = None /\ s.reading /\ s.piece = 1 /\ s.remaining = 0
        /\ s.data = SubSeq(seeking.src, seeking.l + 1, 2 * seeking.l)

\* ------------------------------------------------------------------ C31
\* C31: if the source holds a number of bytes other than the declared
\* file_length, checksum_file_multithreaded returns an error: whenever it
\* returns Ok, the source holds exactly file_length bytes and File.length is
\* file_length. Refuted: a source of two pieces and one byte declared as two
\* pieces, and a source of one piece declared as one byte, are both hashed
\* to an Ok result.
C31_LengthMismatchRejected ==
    (pc = "mt_done" /\ result.ok) =>
        /\ Len(src) = file_length
        /\ result.file.length = file_length

\* C31, what does hold: with two pieces or more declared, an Ok result has
\* File.length = file_length, the source holds at least file_length bytes,
\* and it holds more only when file_length is a multiple of the piece size;
\* with at most one piece declared, the result is that of the sequential
\* engine over the first piece of the source, whatever was declared.
C31_MismatchRejectedInPart ==
    (pc = "mt_done" /\ NoIoError) =>
        LET l == bytes(piece_length)
        IN  IF num_pieces >= 2
            THEN result.ok =>
                    /\ result.file.length = file_length
                    /\ Len(src) >= file_length
                    /\ Len(src) > file_length => file_length % l = 0
            ELSE result = checksum_file(piece_length,
                              Reader(SubSeq(src, 1, Min(l, Len(src))), None))

\* C31: a source longer than the declared length, which is a multiple of the
\* piece size, was hashed in parallel to an Ok result.
C31_LongerSourceAccepted ==
    /\ pc = "mt_done" /\ result.ok /\ num_pieces >= 2
    /\ Len(src) > file_length
    /\ result.file.length = file_length

\* C31: a call delegated to the sequential engine returned Ok with a length
\* other than the declared one.
C31_DelegatedLengthDiffers ==
    /\ pc = "mt_done" /\ result.ok /\ num_pieces <= 1
    /\ result.file.length /= file_length
    /\ Len(src) > result.file.length

\* C31: a source shorter than declared was rejected with UnexpectedEof.
C31_ShortSourceRejected ==
    /\ pc = "mt_done" /\ num_pieces >= 2 /\ Len(src) < file_length
    /\ result = Err("UnexpectedEof")

\* ------------------------------------------------------------------ C32
\* A torrent that holds one file at the path fails to encode.
TooDeepToEncode(path) ==
    ~to_bencode(add_file(NewTorrent(AnnounceUrl, RootName, 0), path,
                         File(1, Root1), <<>>).torrent).ok

\* The files among the entries of the walk.
FilePaths == {tree.entries[i].path :
                 i \in {k \in 1..Len(tree.entries) : tree.entries[k].is_file}}

\* C32: the depth check of get_file_list agrees with the encoder's nesting
\* bound: get_file_list gives up for its depth only on a file whose path a
\* torrent could not encode, and every path of MAX_FILE_PATH_DEPTH segments
\* or fewer is accepted. Refuted: a file whose path has exactly
\* MAX_FILE_PATH_DEPTH segments is rejected by get_file_list, and a torrent
\* holding it encodes.
C32_DepthCheckAgreesWithEncoder ==
    /\ outcome = "depth" => \E p \in FilePaths : TooDeepToEncode(p)
    /\ \A p \in FilePaths :
          TooDeepToEncode(p) <=> Len(split(p)) > MAX_FILE_PATH_DEPTH

\* C32, the part that holds: every torrent main gets to encode encodes, so
\* torrent.to_bencode().unwrap() never panics, and the encoder takes paths of
\* up to MAX_FILE_PATH_DEPTH segments while get_file_list takes paths of
\* fewer than MAX_FILE_PATH_DEPTH segments only.
C32_EncodeNeverFails ==
    /\ (main_pc = "add" /\ Len(todo) = 0) => to_bencode(mtorrent).ok
    /\ \A p \in FilePaths :
          /\ TooDeepToEncode(p) <=> Len(split(p)) > MAX_FILE_PATH_DEPTH
          /\ (main_pc \in {"add", "opened", "hashed"} /\ tree.kind = "dir") =>
                Len(split(p)) < MAX_FILE_PATH_DEPTH

\* C32: get_file_list gave up for the depth of a file that a torrent can
\* hold and encode.
C32_EncodableRejected ==
    /\ outcome = "depth"
    /\ \A p \in FilePaths : ~TooDeepToEncode(p)
    /\ \E p \in FilePaths : Len(split(p)) = MAX_FILE_PATH_DEPTH

\* C32: a file of MAX_FILE_PATH_DEPTH - 1 segments went into the torrent
\* that was written.
C32_DeepestAcceptedReached ==
    /\ outcome = "ok"
    /\ \E p \in FilePaths : Len(split(p)) = MAX_FILE_PATH_DEPTH - 1

\* ------------------------------------------------------------------ C33
\* C33: checksum::checksum_file, the streaming engine, returns the File and
\* the piece-digest list that torrent2::checksum_file returns for the same
\* bytes and piece length. Refuted: for a source of exactly one piece the
\* lists differ, for a multi-piece source with a partial final piece of at
\* most half a piece's blocks the final piece's digest differs, and for a
\* piece count that is not a power of two the file root differs.
C33_EnginesAgree ==
    (pc = "stream_done" /\ NoIoError) => result = Sequential

\* C33, what does hold: the two engines return the same length always, and
\* the same File and list for a source of less than one piece and for a
\* source of two, four, ... whole pieces.
C33_EnginesAgreeInPart ==
    (pc = "stream_done" /\ NoIoError) =>
        LET l == bytes(piece_length)
            np == Len(src) \div l
        IN  /\ result.ok /\ Sequential.ok
            /\ result.file.length = Sequential.file.length
            /\ (Len(src) < l \/ (Len(src) % l = 0 /\ np >= 2 /\ CeilPow2(np) = np))
                  => result = Sequential

\* C33: a source of exactly one piece: the same File, and a list of one
\* digest from torrent2 against the empty list from the streaming engine.
C33_OnePieceListsDiffer ==
    /\ pc = "stream_done" /\ NoIoError /\ Len(src) = bytes(piece_length)
    /\ result.file = Sequential.file
    /\ result.pieces_layer = <<>> /\ Len(Sequential.pieces_layer) = 1

\* C33: a source of one piece and one block, for pieces of two blocks or
\* more: the digests of the final piece differ.
C33_PartialPieceDiffers ==
    /\ pc = "stream_done" /\ NoIoError /\ piece_length >= 1
    /\ Len(src) = bytes(piece_length) + BLOCK_SIZE
    /\ Len(result.pieces_layer) = 2 /\ Len(Sequential.pieces_layer) = 2
    /\ result.pieces_layer[1] = Sequential.pieces_layer[1]
    /\ result.pieces_layer[2] /= Sequential.pieces_layer[2]

\* C33: a source of three whole pieces, for pieces of two blocks or more:
\* the same list, and file roots that differ.
C33_RootDiffers ==
    /\ pc = "stream_done" /\ NoIoError /\ piece_length >= 1
    /\ Len(src) = 3 * bytes(piece_length)
    /\ result.pieces_layer = Sequential.pieces_layer
    /\ result.file.pieces_root /= Sequential.file.pieces_root

====
